---- MODULE Spec2Model ----
(***************************************************************************)
(* Model of plugins/module_utils/organization.py (classes Policies and     *)
(* OrgUnits), of plugins/modules/organization_policy.py and                *)
(* organization_policy_info.py, and of the AWS Organizations service they  *)
(* talk to.                                                                *)
(*                                                                         *)
(* One behaviour is one invocation of one method against an arbitrary      *)
(* service state: `policies` is the service's policy store, `org` its      *)
(* roots and organizational units, and `last` records the invocation       *)
(* (arguments, the faults the service injected, the store before the call, *)
(* the API calls issued in order, the warnings and the way the method      *)
(* ended).                                                                 *)
(*                                                                         *)
(* A method ends in one of three ways:                                     *)
(*   "ok"      it returned (last.changed is the value returned)            *)
(*   "failed"  module.fail_json / fail_json_aws: a structured hard failure *)
(*   "crashed" an exception nothing catches (a traceback, no structured    *)
(*             failure)                                                    *)
(***************************************************************************)
EXTENDS Integers, Sequences, FiniteSets, TLC

VARIABLES policies, org, last

vars == <<policies, org, last>>

----------------------------------------------------------------------------
(* Bounds and the small value sets the inputs are drawn from.              *)

MaxTargets == 2

TargetNames == <<"t1", "t2", "t3", "t4">>

Targets == {TargetNames[i] : i \in 1..MaxTargets}

PolicyIds == {"p1", "p2"}

\* The order in which the service hands out new policy ids.
IdOrder == <<"p1", "p2">>

\* Python's None for an optional string argument.
None == "<None>"

Names == {"n1", "n2"}

Descriptions == {"d1", "d2"}

\* Policy documents as JSON text: the first two are the same document with
\* the keys in a different order, the third is a different document.
ContentAB == "{'a':1,'b':2}"

ContentBA == "{'b':2,'a':1}"

ContentA2 == "{'a':2}"

Contents == {ContentAB, ContentBA, ContentA2}

TagKeys == {"k1", "k2"}

TagValues == {"v1", "v2"}

\* Every mapping from some of the tag keys to tag values (a Python dict).
TagMaps == UNION {[S -> TagValues] : S \in SUBSET TagKeys}

NoTags == [k \in {} |-> "v1"]

\* The order in which a dict or a service listing enumerates the tag keys.
KeyOrder == <<"k1", "k2">>

\* The largest max_depth an invocation of list_ous is given.
MaxDepth == 2

\* The organization roots and organizational units (OUs) the service may
\* know, and the order in which it lists OUs.
Roots == {"r1", "r2"}

OUs == {"o1", "o2", "o3"}

OuOrder == <<"o1", "o2", "o3">>

Nodes == Roots \cup OUs

Accounts == {"a1", "a2"}

AccountOrder == <<"a1", "a2">>

\* The policy types OrgUnits._describe_attached_policies asks for, in order.
AttachedTypes ==
  <<"SERVICE_CONTROL_POLICY", "TAG_POLICY", "AISERVICES_OPT_OUT_POLICY",
    "BACKUP_POLICY">>

\* The auxiliary queries of OrgUnits.describe_ou after the tags.
SubQueries ==
  {"parents", "accounts", "child_ous"}
  \cup {AttachedTypes[i] : i \in DOMAIN AttachedTypes}

----------------------------------------------------------------------------
(* Sequence helpers.                                                       *)

Range(s) == {s[i] : i \in DOMAIN s}

Perms(S) == {s \in [1..Cardinality(S) -> S] : Range(s) = S}

\* The sequence s without the element x.
RECURSIVE Without(_, _)
Without(s, x) ==
  IF s = <<>> THEN <<>>
  ELSE IF Head(s) = x THEN Without(Tail(s), x)
  ELSE <<Head(s)>> \o Without(Tail(s), x)

----------------------------------------------------------------------------
(* The service's policy store.                                             *)

Absent ==
  [exists |-> FALSE, name |-> "", description |-> "", content |-> "",
   type |-> "", tags |-> NoTags, targets |-> <<>>]

DefaultPolicy ==
  [exists |-> TRUE, name |-> "n1", description |-> "d1", content |-> ContentAB,
   type |-> "SERVICE_CONTROL_POLICY", tags |-> NoTags, targets |-> <<>>]

\* camel_dict_to_snake_dict on one target of list_targets_for_policy.
camel_dict_to_snake_dict(t) == [target_id |-> t.TargetId]

\* The organization: the roots in the order the service lists them, the
\* parent of every OU (None: the service knows no such OU), the parent of
\* every account, the tags of every OU and the policies attached to it.
DefaultOrg ==
  [roots |-> <<"r1">>,
   parent |-> [o \in OUs |-> IF o = "o1" THEN "r1"
                             ELSE IF o = "o2" THEN "o1" ELSE None],
   account_parent |-> [a \in Accounts |-> IF a = "a1" THEN "o1" ELSE "r1"],
   tags |-> [o \in OUs |-> IF o = "o1" THEN [k \in {"k1"} |-> "v1"] ELSE NoTags],
   attached |-> [o \in OUs |->
                   IF o = "o1"
                   THEN <<[Id |-> "p1", Type |-> "SERVICE_CONTROL_POLICY"],
                          [Id |-> "p2", Type |-> "TAG_POLICY"]>>
                   ELSE <<[Id |-> "p1", Type |-> "SERVICE_CONTROL_POLICY"]>>]]

\* The service knows the root or OU n.
OuExists(orgn, n) ==
  \/ n \in Range(orgn.roots)
  \/ n \in OUs /\ orgn.parent[n] # None

----------------------------------------------------------------------------
(* The record of an invocation.                                            *)

NoArgs ==
  [policy |-> None, has_policies |-> FALSE, policy_list |-> <<>>,
   force_delete |-> FALSE,
   name |-> None, description |-> None, content |-> None,
   policy_type |-> None, has_tags |-> FALSE, tags |-> NoTags,
   purge_tags |-> TRUE,
   parent |-> None, recurse |-> FALSE, max_depth |-> 0,
   ou |-> None, fetch_attachments |-> FALSE, fetch_targets |-> FALSE,
   has_policy_ids |-> FALSE, policy_ids |-> <<>>, state |-> None]

\* The faults of one invocation: per policy for the target listing and the
\* delete, per target for the detach, one for each other call.
NoEnv ==
  [list |-> [p \in PolicyIds |-> "none"],
   detach |-> [t \in Targets |-> "none"],
   delete |-> [p \in PolicyIds |-> "none"],
   describe |-> "none", update |-> "none", list_tags |-> "none",
   tag |-> "none", untag |-> "none", create |-> "none",
   list_roots |-> "none", list_ous |-> [n \in Nodes |-> "none"],
   describe_each |-> [p \in PolicyIds |-> "none"],
   tags_each |-> [p \in PolicyIds |-> "none"], list_policies |-> "none",
   ou_describe |-> "none", ou_tags |-> [o \in OUs |-> "none"],
   sub |-> [q \in SubQueries |-> "none"]]

NoFailure ==
  [msg |-> "", policy |-> None, target |-> None, exception |-> "",
   targets |-> <<>>, roots |-> <<>>]

\* The running state of a method: the store, the calls issued so far, the
\* warnings, and how it ended (status "run" while it has not).
Start(svc) ==
  [svc |-> svc, calls |-> <<>>, warnings |-> <<>>, status |-> "run",
   changed |-> FALSE, failure |-> NoFailure, created |-> None,
   result |-> <<>>]

Return(st, changed) == [st EXCEPT !.status = "ok", !.changed = changed]

\* A method returning a value that is not a `changed` flag.
ReturnValue(st, value) == [st EXCEPT !.status = "ok", !.result = value]

\* module.fail_json / module.fail_json_aws: report and exit.
FailJson(st, failure) == [st EXCEPT !.status = "failed", !.failure = failure]

\* An exception no handler catches.
Crash(st, exception) ==
  [st EXCEPT !.status = "crashed",
             !.failure = [NoFailure EXCEPT !.exception = exception]]

Warn(st, text) == [st EXCEPT !.warnings = Append(@, text)]

Called(st, call) == [st EXCEPT !.calls = Append(@, call)]

----------------------------------------------------------------------------
(* The Organizations service, as the client sees it.  Each call answers    *)
(* from the store unless the environment injects a fault:                  *)
(*   "denied"  AccessDeniedException                                       *)
(*   "error"   any other service or transport error                        *)
(*   "race"    another actor did the same thing first, so the call finds   *)
(*             nothing left to do (detach: not attached; delete: not found)*)

Answer(svc, code) == [svc |-> svc, code |-> code, Targets |-> <<>>]

FaultCode(fault) ==
  IF fault = "denied" THEN "AccessDeniedException" ELSE "ServiceException"

\* list_targets_for_policy, paginated to completion: the attached targets
\* in the order the service lists them.
list_targets_for_policy(svc, policy, fault) ==
  IF fault \in {"denied", "error"} THEN Answer(svc, FaultCode(fault))
  ELSE IF ~svc[policy].exists THEN Answer(svc, "PolicyNotFoundException")
  ELSE [svc |-> svc, code |-> "ok",
        Targets |-> [i \in DOMAIN svc[policy].targets |->
                       [TargetId |-> svc[policy].targets[i]]]]

detach_policy(svc, policy, target, fault) ==
  IF fault \in {"denied", "error"} THEN Answer(svc, FaultCode(fault))
  ELSE IF ~svc[policy].exists THEN Answer(svc, "PolicyNotFoundException")
  ELSE IF fault = "race" \/ target \notin Range(svc[policy].targets)
  THEN Answer([svc EXCEPT ![policy].targets = Without(@, target)],
              "PolicyNotAttachedException")
  ELSE Answer([svc EXCEPT ![policy].targets = Without(@, target)], "ok")

service_delete_policy(svc, policy, fault) ==
  IF fault \in {"denied", "error"} THEN Answer(svc, FaultCode(fault))
  ELSE IF fault = "race" \/ ~svc[policy].exists
  THEN Answer([svc EXCEPT ![policy] = Absent], "PolicyNotFoundException")
  ELSE IF svc[policy].targets # <<>> THEN Answer(svc, "PolicyInUseException")
  ELSE Answer([svc EXCEPT ![policy] = Absent], "ok")

----------------------------------------------------------------------------
(* Policies.delete_policy                                                  *)


\* module.check_mode, never set.
check_mode_ignored(rt) == FALSE

\* module.check_mode
check_mode(rt) == rt.check_mode

\* The molly guard with the flag read the wrong way round.
StillAttachedInverted(targets, force_delete) == targets # <<>> /\ force_delete

\* The detach loop giving up on "not attached" as on any other error.
DetachToleratedOnlyOk(code) == code = "ok"

\* The detach loop swallowing every error.
DetachToleratedAny(code) == TRUE

\* The molly guard: targets are attached and force_delete is not set.
StillAttached(targets, force_delete) == targets # <<>> /\ ~force_delete

\* The answers to detach_policy after which the loop goes on: a success, and
\* "not attached" (already detached).
DetachTolerated(code) == code \in {"ok", "PolicyNotAttachedException"}

\* The value of `changed` after the detach of one target went through.
ChangedAfterDetach(changed, code) == TRUE

\* The detach loop, from the i-th listed target on.
RECURSIVE DetachTargets(_, _, _, _, _)
DetachTargets(st, policy, targets, i, env) ==
  IF i > Len(targets) THEN st
  ELSE LET target == targets[i]
           r == detach_policy(st.svc, policy, target.TargetId,
                              env.detach[target.TargetId])
           st1 == Called([st EXCEPT !.svc = r.svc],
                         [api |-> "detach_policy", PolicyId |-> policy,
                          TargetId |-> target.TargetId, code |-> r.code])
       IN IF DetachTolerated(r.code)
          THEN DetachTargets(
                 [st1 EXCEPT !.changed = ChangedAfterDetach(st1.changed, r.code)],
                 policy, targets, i + 1, env)
          ELSE FailJson(st1,
                 [NoFailure EXCEPT !.msg = "Failed to detach policy from target",
                                   !.policy = policy,
                                   !.target = target.TargetId,
                                   !.exception = r.code])

\* The report of a failed delete_policy call.  Its message is formatted from
\* the loop variable `target`, which is bound only if the loop ran.
DeleteFailure(st, policy, targets, code) ==
  IF targets = <<>> THEN Crash(st, "NameError")
  ELSE FailJson(st,
         [NoFailure EXCEPT !.msg = "Failed to detach policy from target",
                           !.policy = policy,
                           !.target = targets[Len(targets)].TargetId,
                           !.exception = code])

\* The last step: the delete_policy call and what its answer means.
DeleteStep(st, rt, policy, targets, env) ==
  IF check_mode(rt) THEN Return(st, TRUE)
  ELSE LET r == service_delete_policy(st.svc, policy, env.delete[policy])
           st1 == Called([st EXCEPT !.svc = r.svc],
                         [api |-> "delete_policy", PolicyId |-> policy,
                          code |-> r.code])
       IN IF r.code = "ok" THEN Return(st1, TRUE)
          ELSE IF r.code = "PolicyNotFoundException"
          THEN Return(st1, st1.changed)
          ELSE DeleteFailure(st1, policy, targets, r.code)

\* From the listed targets on: the molly guard, the check-mode gate, the
\* detach loop and the delete.
DeleteWithTargets(st, rt, policy, force_delete, targets, env) ==
  IF targets # <<>>
  THEN IF StillAttached(targets, force_delete)
       THEN FailJson(st,
              [NoFailure EXCEPT !.msg = "Unable to delete policy - still attached",
                                !.policy = policy,
                                !.targets = [i \in DOMAIN targets |->
                                   camel_dict_to_snake_dict(targets[i])]])
       ELSE IF check_mode(rt) THEN Return(st, TRUE)
       ELSE LET st1 == DetachTargets(st, policy, targets, 1, env)
            IN IF st1.status # "run" THEN st1
               ELSE DeleteStep(st1, rt, policy, targets, env)
  ELSE DeleteStep(st, rt, policy, targets, env)

\* The target listing with access-denied handled like any other error.
FetchTargetsDeniedFails(st, policy, r) ==
  IF r.code = "ok" THEN [st |-> st, targets |-> r.Targets]
  ELSE IF r.code = "PolicyNotFoundException"
  THEN [st |-> Return(Warn(st, "Attempted to delete a non-existent policy"),
                      FALSE),
        targets |-> <<>>]
  ELSE [st |-> FailJson(st,
                 [NoFailure EXCEPT !.msg = "Failed to list targets for policy",
                                   !.policy = policy,
                                   !.exception = r.code]),
        targets |-> <<>>]

\* The target listing with "not found" handled like any other error.
FetchTargetsNotFoundFails(st, policy, r) ==
  IF r.code = "ok" THEN [st |-> st, targets |-> r.Targets]
  ELSE IF r.code = "AccessDeniedException"
  THEN [st |-> Warn(st, "Access Denied fetching policy targets"),
        targets |-> <<>>]
  ELSE [st |-> FailJson(st,
                 [NoFailure EXCEPT !.msg = "Failed to list targets for policy",
                                   !.policy = policy,
                                   !.exception = r.code]),
        targets |-> <<>>]

\* What the answer to the target listing means.
FetchTargets(st, policy, r) ==
  IF r.code = "ok" THEN [st |-> st, targets |-> r.Targets]
  ELSE IF r.code = "AccessDeniedException"
  THEN [st |-> Warn(st, "Access Denied fetching policy targets"),
        targets |-> <<>>]
  ELSE IF r.code = "PolicyNotFoundException"
  THEN [st |-> Return(Warn(st, "Attempted to delete a non-existent policy"),
                      FALSE),
        targets |-> <<>>]
  ELSE [st |-> FailJson(st,
                 [NoFailure EXCEPT !.msg = "Failed to list targets for policy",
                                   !.policy = policy,
                                   !.exception = r.code]),
        targets |-> <<>>]

delete_policy(st, rt, policy, force_delete, env) ==
  IF policy = None THEN Return(st, FALSE)
  ELSE LET r == list_targets_for_policy(st.svc, policy, env.list[policy])
           f == FetchTargets(
                  Called(st, [api |-> "list_targets_for_policy",
                              PolicyId |-> policy, code |-> r.code,
                              Targets |-> r.Targets]),
                  policy, r)
       IN IF f.st.status # "run" THEN f.st
          ELSE DeleteWithTargets(f.st, rt, policy, force_delete, f.targets, env)

----------------------------------------------------------------------------
(* Policies.delete_policies                                                *)

\* The loop over the policies, from the i-th on: changed |= delete_policy.
\* A hard failure in one delete ends the module run.
RECURSIVE DeleteEach(_, _, _, _, _, _)
DeleteEach(st, rt, policy_list, i, force_delete, env) ==
  IF i > Len(policy_list) THEN Return(st, st.changed)
  ELSE LET one == delete_policy(
                    [st EXCEPT !.status = "run", !.changed = FALSE],
                    rt, policy_list[i], force_delete, env)
       IN IF one.status # "ok" THEN one
          ELSE DeleteEach([one EXCEPT !.status = "run",
                                      !.changed = st.changed \/ one.changed],
                          rt, policy_list, i + 1, force_delete, env)

delete_policies(st, rt, has_policies, policy_list, force_delete, env) ==
  IF ~has_policies THEN Return(st, FALSE)
  ELSE DeleteEach(st, rt, policy_list, 1, force_delete, env)

----------------------------------------------------------------------------
(* Values and conversions of the Python side.                              *)

\* Python truthiness of an optional string: None and "" are false.
Truthy(x) == x # None /\ x # ""

\* json.loads on the policy documents of the model: the parsed document.
json_loads(text) ==
  IF text = ContentAB THEN [a |-> 1, b |-> 2]
  ELSE IF text = ContentBA THEN [b |-> 2, a |-> 1]
  ELSE [a |-> 2]

\* compare_policies: TRUE when the two parsed documents differ.
compare_policies(old_content, new_content) == old_content # new_content

\* The keys of a dict in the order it enumerates them.
KeyList(d) == SelectSeq(KeyOrder, LAMBDA k : k \in DOMAIN d)

\* ansible_dict_to_boto3_tag_list: {k: v} to [{Key: k, Value: v}].
ansible_dict_to_boto3_tag_list(d) ==
  [i \in DOMAIN KeyList(d) |-> [Key |-> KeyList(d)[i], Value |-> d[KeyList(d)[i]]]]

\* boto3_tag_list_to_ansible_dict: [{Key: k, Value: v}] to {k: v}.
boto3_tag_list_to_ansible_dict(l) ==
  [k \in {l[i].Key : i \in DOMAIN l} |->
     (CHOOSE e \in Range(l) :
        e.Key = k /\ \A i \in DOMAIN l :
          l[i].Key = k => \E j \in DOMAIN l : j >= i /\ l[j] = e).Value]

\* A Python dict and a Python list, told apart by their type.
PyDict(d) == [type |-> "dict", dict |-> d, list |-> <<>>]

PyList(l) == [type |-> "list", dict |-> NoTags, list |-> l]

\* bool(x) of a dict or a list: it is not empty.
PyBool(x) == IF x.type = "dict" THEN DOMAIN x.dict # {} ELSE x.list # <<>>

\* x.keys(): the keys of a dict; a list has no such attribute.
PyKeys(x) ==
  IF x.type = "dict" THEN [raised |-> "", keys |-> KeyList(x.dict)]
  ELSE [raised |-> "AttributeError", keys |-> <<>>]

\* compare_aws_tags(current, new, purge_tags): the dict of the pairs to set
\* and the list of the keys to unset.
compare_aws_tags(current_tags, new_tags, purge_tags) ==
  LET unset == SelectSeq(KeyList(current_tags),
                         LAMBDA k : k \notin DOMAIN new_tags /\ purge_tags)
      to_set == {k \in DOMAIN new_tags \ Range(unset) :
                   k \notin DOMAIN current_tags \/ new_tags[k] # current_tags[k]}
  IN [to_set |-> PyDict([k \in to_set |-> new_tags[k]]),
      to_delete |-> PyList(unset)]

\* The mapping without its entry for None.
TYPE_MAPPING_NoDefault(policy_type) ==
  IF policy_type = "service_control" THEN "SERVICE_CONTROL_POLICY"
  ELSE IF policy_type = "aiservices_opt_out" THEN "AISERVICES_OPT_OUT_POLICY"
  ELSE IF policy_type = "backup" THEN "BACKUP_POLICY"
  ELSE IF policy_type = "tag" THEN "TAG_POLICY"
  ELSE policy_type

\* Policies._TYPE_MAPPING.get(policy_type, policy_type)
TYPE_MAPPING(policy_type) ==
  IF policy_type = None THEN "SERVICE_CONTROL_POLICY"
  ELSE IF policy_type = "service_control" THEN "SERVICE_CONTROL_POLICY"
  ELSE IF policy_type = "aiservices_opt_out" THEN "AISERVICES_OPT_OUT_POLICY"
  ELSE IF policy_type = "backup" THEN "BACKUP_POLICY"
  ELSE IF policy_type = "tag" THEN "TAG_POLICY"
  ELSE policy_type

----------------------------------------------------------------------------
(* More of the service.                                                    *)

service_describe_policy(svc, policy, fault) ==
  IF fault \in {"denied", "error"} THEN Answer(svc, FaultCode(fault))
  ELSE IF ~svc[policy].exists THEN Answer(svc, "PolicyNotFoundException")
  ELSE Answer(svc, "ok")

\* update_policy(PolicyId, **changes): only the attributes given change.
service_update_policy(svc, policy, changes, fault) ==
  IF fault \in {"denied", "error"} THEN Answer(svc, FaultCode(fault))
  ELSE IF ~svc[policy].exists THEN Answer(svc, "PolicyNotFoundException")
  ELSE Answer(
         [svc EXCEPT
            ![policy].name = IF "Name" \in DOMAIN changes
                             THEN changes["Name"] ELSE @,
            ![policy].description = IF "Description" \in DOMAIN changes
                                    THEN changes["Description"] ELSE @,
            ![policy].content = IF "Content" \in DOMAIN changes
                                THEN changes["Content"] ELSE @],
         "ok")

list_tags_for_resource(svc, policy, fault) ==
  IF fault \in {"denied", "error"}
  THEN [svc |-> svc, code |-> FaultCode(fault), Tags |-> <<>>]
  ELSE IF ~svc[policy].exists
  THEN [svc |-> svc, code |-> "TargetNotFoundException", Tags |-> <<>>]
  ELSE [svc |-> svc, code |-> "ok",
        Tags |-> ansible_dict_to_boto3_tag_list(svc[policy].tags)]

tag_resource(svc, policy, tag_list, fault) ==
  IF fault \in {"denied", "error"} THEN Answer(svc, FaultCode(fault))
  ELSE IF ~svc[policy].exists THEN Answer(svc, "TargetNotFoundException")
  ELSE LET new == boto3_tag_list_to_ansible_dict(tag_list)
       IN Answer(
            [svc EXCEPT ![policy].tags =
               [k \in DOMAIN @ \cup DOMAIN new |->
                  IF k \in DOMAIN new THEN new[k] ELSE @[k]]],
            "ok")

untag_resource(svc, policy, tag_keys, fault) ==
  IF fault \in {"denied", "error"} THEN Answer(svc, FaultCode(fault))
  ELSE IF ~svc[policy].exists THEN Answer(svc, "TargetNotFoundException")
  ELSE Answer(
         [svc EXCEPT ![policy].tags = [k \in DOMAIN @ \ Range(tag_keys) |-> @[k]]],
         "ok")

\* create_policy(Content, Description, Name, Type).  The client refuses a
\* None where the API wants a string before anything is sent; the service
\* refuses a policy beyond its quota; otherwise it stores the policy under
\* a new id.
service_create_policy(svc, name, description, content, type, fault) ==
  IF \E x \in {name, description, content, type} : x = None
  THEN [svc |-> svc, code |-> "ParamValidationError", Id |-> None]
  ELSE IF fault \in {"denied", "error"}
  THEN [svc |-> svc, code |-> FaultCode(fault), Id |-> None]
  ELSE IF \A p \in PolicyIds : svc[p].exists
  THEN [svc |-> svc, code |-> "ConstraintViolationException", Id |-> None]
  ELSE LET free == SelectSeq(IdOrder, LAMBDA p : ~svc[p].exists)
           id == Head(free)
       IN [svc |-> [svc EXCEPT ![id] =
                      [exists |-> TRUE, name |-> name,
                       description |-> description, content |-> content,
                       type |-> type, tags |-> NoTags, targets |-> <<>>]],
           code |-> "ok", Id |-> id]

----------------------------------------------------------------------------
(* Policies.update_policy                                                  *)

\* The comparison with the stored value left out.
StringChangedAlways(desired, stored) == Truthy(desired)

\* The truthiness test left out.
StringChangedNoTruthy(desired, stored) == desired # stored

\* `if name and name != stored`: a desired name or description counts when
\* it is given, not empty, and not the stored one.
StringChanged(desired, stored) == Truthy(desired) /\ desired # stored

\* `if content: ... if compare_policies(old, new)`: a desired content counts
\* when it is given, not empty, and parses to another document.
ContentChanged(content, stored) ==
  Truthy(content) /\ compare_policies(json_loads(stored), json_loads(content))

\* The dict `changes`: the attributes to send.
Changes(detail, name, content, description) ==
  LET desired == [Name |-> name, Description |-> description,
                  Content |-> content]
      staged == {k \in {"Name", "Description", "Content"} :
                   IF k = "Name" THEN StringChanged(name, detail.name)
                   ELSE IF k = "Description"
                   THEN StringChanged(description, detail.description)
                   ELSE ContentChanged(content, detail.content)}
  IN [k \in staged |-> desired[k]]

update_policy(st, rt, policy, name, content, description, env) ==
  LET d == service_describe_policy(st.svc, policy, env.describe)
      st1 == Called(st, [api |-> "describe_policy", PolicyId |-> policy,
                         code |-> d.code])
  IN IF d.code # "ok"
     THEN FailJson(st1, [NoFailure EXCEPT !.msg = "Failed to describe policy",
                                          !.policy = policy,
                                          !.exception = d.code])
     ELSE LET changes == Changes(st.svc[policy], name, content, description)
          IN IF DOMAIN changes = {} THEN Return(st1, FALSE)
             ELSE IF check_mode(rt) THEN Return(st1, TRUE)
             ELSE LET u == service_update_policy(st1.svc, policy, changes,
                                                 env.update)
                      st2 == Called([st1 EXCEPT !.svc = u.svc],
                                    [api |-> "update_policy",
                                     PolicyId |-> policy, params |-> changes,
                                     code |-> u.code])
                  IN IF u.code # "ok"
                     THEN FailJson(st2,
                            [NoFailure EXCEPT !.msg = "Failed to update policy",
                                              !.exception = u.code])
                     ELSE Return(st2, TRUE)

----------------------------------------------------------------------------
(* Policies.create_policy                                                  *)

\* create_policy taking the policy back when the tagging fails.
create_policy_rollback(st, rt, name, content, policy_type, description, tags_arg, env) ==
  LET type == TYPE_MAPPING(policy_type)
  IN IF check_mode(rt) THEN Return(st, TRUE)
     ELSE LET tags == IF tags_arg.has_tags THEN tags_arg.tags ELSE NoTags
              c == service_create_policy(st.svc, name, description, content,
                                         type, env.create)
              st1 == Called([st EXCEPT !.svc = c.svc],
                            [api |-> "create_policy", Name |-> name,
                             Description |-> description, Content |-> content,
                             Type |-> type, code |-> c.code])
          IN IF c.code # "ok"
             THEN FailJson(st1,
                    [NoFailure EXCEPT !.msg = "Failed to create policy",
                                      !.exception = c.code])
             ELSE LET t == tag_resource(st1.svc, c.Id,
                             ansible_dict_to_boto3_tag_list(tags), env.tag)
                      st2 == Called([st1 EXCEPT !.svc = t.svc,
                                                !.created = c.Id],
                                    [api |-> "tag_resource",
                                     ResourceId |-> c.Id,
                                     Tags |-> ansible_dict_to_boto3_tag_list(tags),
                                     code |-> t.code])
                  IN IF t.code # "ok"
                     THEN FailJson([st2 EXCEPT !.svc[c.Id] = Absent],
                            [NoFailure EXCEPT !.msg = "Failed to create policy",
                                              !.exception = t.code])
                     ELSE Return(st2, TRUE)

create_policy(st, rt, name, content, policy_type, description, tags_arg, env) ==
  LET type == TYPE_MAPPING(policy_type)
  IN IF check_mode(rt) THEN Return(st, TRUE)
     ELSE LET tags == IF tags_arg.has_tags THEN tags_arg.tags ELSE NoTags
              c == service_create_policy(st.svc, name, description, content,
                                         type, env.create)
              st1 == Called([st EXCEPT !.svc = c.svc],
                            [api |-> "create_policy", Name |-> name,
                             Description |-> description, Content |-> content,
                             Type |-> type, code |-> c.code])
          IN IF c.code # "ok"
             THEN FailJson(st1,
                    [NoFailure EXCEPT !.msg = "Failed to create policy",
                                      !.exception = c.code])
             ELSE LET t == tag_resource(st1.svc, c.Id,
                             ansible_dict_to_boto3_tag_list(tags), env.tag)
                      st2 == Called([st1 EXCEPT !.svc = t.svc,
                                                !.created = c.Id],
                                    [api |-> "tag_resource",
                                     ResourceId |-> c.Id,
                                     Tags |-> ansible_dict_to_boto3_tag_list(tags),
                                     code |-> t.code])
                  IN IF t.code # "ok"
                     THEN FailJson(st2,
                            [NoFailure EXCEPT !.msg = "Failed to create policy",
                                              !.exception = t.code])
                     ELSE Return(st2, TRUE)

----------------------------------------------------------------------------
(* Policies.update_policy_tags                                             *)

\* The second half: untag_resource(TagKeys=tags_to_delete.keys()).
RemoveTags(st, policy_id, tags_to_delete, env) ==
  IF ~PyBool(tags_to_delete) THEN Return(st, TRUE)
  ELSE LET k == PyKeys(tags_to_delete)
       IN IF k.raised # "" THEN Crash(st, k.raised)
          ELSE LET u == untag_resource(st.svc, policy_id, k.keys, env.untag)
                   st1 == Called([st EXCEPT !.svc = u.svc],
                                 [api |-> "untag_resource",
                                  ResourceId |-> policy_id,
                                  TagKeys |-> k.keys, code |-> u.code])
               IN IF u.code # "ok"
                  THEN FailJson(st1,
                         [NoFailure EXCEPT !.msg = "Failed to remove tags",
                                           !.exception = u.code])
                  ELSE Return(st1, TRUE)

\* The first half: tag_resource(Tags=tags_to_set), then the second.
SetTags(st, policy_id, tags_to_set, tags_to_delete, env) ==
  IF ~PyBool(tags_to_set) THEN RemoveTags(st, policy_id, tags_to_delete, env)
  ELSE LET tag_list == ansible_dict_to_boto3_tag_list(tags_to_set.dict)
           t == tag_resource(st.svc, policy_id, tag_list, env.tag)
           st1 == Called([st EXCEPT !.svc = t.svc],
                         [api |-> "tag_resource", ResourceId |-> policy_id,
                          Tags |-> tag_list, code |-> t.code])
       IN IF t.code # "ok"
          THEN FailJson(st1, [NoFailure EXCEPT !.msg = "Failed to set tags",
                                               !.exception = t.code])
          ELSE RemoveTags(st1, policy_id, tags_to_delete, env)

update_policy_tags(st, rt, policy_id, has_tags, tags, purge_tags, env) ==
  IF ~has_tags THEN Return(st, FALSE)
  ELSE LET l == list_tags_for_resource(st.svc, policy_id, env.list_tags)
           st1 == Called(st, [api |-> "list_tags_for_resource",
                              ResourceId |-> policy_id, code |-> l.code])
       IN IF l.code # "ok"
          THEN FailJson(st1, [NoFailure EXCEPT !.msg = "Failed to list tags",
                                               !.exception = l.code])
          ELSE LET old_tags == boto3_tag_list_to_ansible_dict(l.Tags)
                   diff == compare_aws_tags(old_tags, tags, purge_tags)
               IN IF ~(PyBool(diff.to_delete) \/ PyBool(diff.to_set))
                  THEN Return(st1, FALSE)
                  ELSE IF check_mode(rt) THEN Return(st1, TRUE)
                  ELSE SetTags(st1, policy_id, diff.to_set, diff.to_delete, env)

----------------------------------------------------------------------------
(* Policies.describe_policy and describe_policies                          *)

\* The description of a policy: a dict with the keys `fields`.
PolicyDescription(svc, policy) ==
  [Id |-> policy, fields |-> {"PolicySummary", "Content"},
   Name |-> svc[policy].name, Description |-> svc[policy].description,
   Type |-> svc[policy].type, Content |-> svc[policy].content,
   Tags |-> <<>>, Targets |-> <<>>]

\* A describe that takes "not found" for an error like any other.
IsNotFoundNever(code) == FALSE

\* `except is_boto3_error_code('PolicyNotFoundException'): return None`
IsNotFound(code) == code = "PolicyNotFoundException"

\* `if self.fetch_targets`: the target listing, added to the description d.
DescribeTargets(st, fetch_targets, policy, d, env) ==
  IF ~fetch_targets THEN ReturnValue(st, <<d>>)
  ELSE LET r == list_targets_for_policy(st.svc, policy, env.list[policy])
           st1 == Called(st, [api |-> "list_targets_for_policy",
                              PolicyId |-> policy, code |-> r.code,
                              Targets |-> r.Targets])
       IN IF r.code # "ok"
          THEN FailJson(st1,
                 [NoFailure EXCEPT !.msg = "Failed to list targets for policy",
                                   !.policy = policy, !.exception = r.code])
          ELSE ReturnValue(st1, <<[d EXCEPT !.fields = @ \cup {"Targets"},
                                            !.Targets = r.Targets]>>)

\* describe_policy: None (an empty result) or the description (a result of
\* one).
describe_policy(st, fetch_targets, policy, env) ==
  LET d == service_describe_policy(st.svc, policy, env.describe_each[policy])
      st1 == Called(st, [api |-> "describe_policy", PolicyId |-> policy,
                         code |-> d.code])
      t == list_tags_for_resource(st.svc, policy, env.tags_each[policy])
      st2 == Called(st1, [api |-> "list_tags_for_resource",
                          ResourceId |-> policy, code |-> t.code])
      description == [PolicyDescription(st.svc, policy) EXCEPT
                        !.fields = @ \cup {"Tags"}, !.Tags = t.Tags]
  IN IF IsNotFound(d.code) THEN ReturnValue(st1, <<>>)
     ELSE IF d.code # "ok"
     THEN FailJson(st1, [NoFailure EXCEPT !.msg = "Failed to describe policy",
                                          !.policy = policy,
                                          !.exception = d.code])
     ELSE IF t.code = "AccessDeniedException"
     THEN DescribeTargets(Warn(st2, "Access Denied fetching Tags"),
                          fetch_targets, policy, description, env)
     ELSE IF t.code # "ok"
     THEN FailJson(st2, [NoFailure EXCEPT !.msg = "Failed to describe policy",
                                          !.policy = policy,
                                          !.exception = t.code])
     ELSE DescribeTargets(st2, fetch_targets, policy, description, env)

\* The loop of describe_policies, from the i-th policy on; `described` is
\* described_policies so far.
RECURSIVE DescribeEachPolicy(_, _, _, _, _, _)
DescribeEachPolicy(st, fetch_targets, policy_list, i, described, env) ==
  IF i > Len(policy_list) THEN ReturnValue(st, described)
  ELSE LET one == describe_policy([st EXCEPT !.status = "run", !.result = <<>>],
                                  fetch_targets, policy_list[i], env)
       IN IF one.status # "ok" THEN [one EXCEPT !.result = <<>>]
          ELSE DescribeEachPolicy([one EXCEPT !.status = "run"], fetch_targets,
                                  policy_list, i + 1,
                                  described \o one.result, env)

describe_policies(st, fetch_targets, policy_list, env) ==
  DescribeEachPolicy(st, fetch_targets, policy_list, 1, <<>>, env)

----------------------------------------------------------------------------
(* plugins/modules/organization_policy_info.py                             *)

\* list_policies(Filter), paginated to completion.
service_list_policies(svc, filter, fault) ==
  IF fault \in {"denied", "error"}
  THEN [code |-> FaultCode(fault), Policies |-> <<>>]
  ELSE LET ids == SelectSeq(IdOrder,
                            LAMBDA p : svc[p].exists /\ svc[p].type = filter)
       IN [code |-> "ok",
           Policies |-> [i \in DOMAIN ids |->
                           [Id |-> ids[i], Name |-> svc[ids[i]].name]]]

\* The module's _TYPE_MAPPING.get(policy_type, policy_type), and the default
\* when no type is given.
info_policy_type(policy_type) ==
  IF ~Truthy(policy_type) THEN "SERVICE_CONTROL_POLICY"
  ELSE IF policy_type = "service_control" THEN "SERVICE_CONTROL_POLICY"
  ELSE IF policy_type = "aiservices_opt_out" THEN "AISERVICES_OPT_OUT_POLICY"
  ELSE IF policy_type = "backup" THEN "BACKUP_POLICY"
  ELSE IF policy_type = "tag" THEN "TAG_POLICY"
  ELSE policy_type

\* The module's list_policies: the ids of the policies of the type.
info_list_policies(st, policy_type, env) ==
  LET filter == info_policy_type(policy_type)
      l == service_list_policies(st.svc, filter, env.list_policies)
      st1 == Called(st, [api |-> "list_policies", Filter |-> filter,
                         code |-> l.code])
  IN IF l.code # "ok"
     THEN FailJson(st1, [NoFailure EXCEPT !.msg = "Failed to list policies",
                                          !.exception = l.code])
     ELSE IF l.Policies = <<>>
     THEN FailJson(st1, [NoFailure EXCEPT !.msg =
            "Failed to list policies - Policies missing from returned value."])
     ELSE ReturnValue(st1, [i \in DOMAIN l.Policies |-> l.Policies[i].Id])

\* The module's describe_policies, from the i-th policy on.
RECURSIVE info_describe_policies(_, _, _, _, _, _)
info_describe_policies(st, fetch_targets, policy_list, i, described, env) ==
  IF i > Len(policy_list) THEN ReturnValue(st, described)
  ELSE LET policy == policy_list[i]
           d == service_describe_policy(st.svc, policy, env.describe_each[policy])
           st1 == Called(st, [api |-> "describe_policy", PolicyId |-> policy,
                              code |-> d.code])
           r == list_targets_for_policy(st.svc, policy, env.list[policy])
           st2 == Called(st1, [api |-> "list_targets_for_policy",
                               PolicyId |-> policy, code |-> r.code,
                               Targets |-> r.Targets])
           description == PolicyDescription(st.svc, policy)
       IN IF d.code # "ok"
          THEN FailJson(st1,
                 [NoFailure EXCEPT !.msg = "Failed to describe policy",
                                   !.policy = policy, !.exception = d.code])
          ELSE IF ~fetch_targets
          THEN info_describe_policies(st1, fetch_targets, policy_list, i + 1,
                                      described \o <<description>>, env)
          ELSE IF r.code # "ok"
          THEN FailJson(st2,
                 [NoFailure EXCEPT !.msg = "Failed to policy targets for policy",
                                   !.policy = policy, !.exception = r.code])
          ELSE info_describe_policies(st2, fetch_targets, policy_list, i + 1,
                 described \o <<[description EXCEPT
                                   !.fields = @ \cup {"Targets"},
                                   !.Targets = r.Targets]>>, env)

\* The module's normalize_policies: the keys in snake case.
info_normalize_policies(described) ==
  [i \in DOMAIN described |->
     [policy_summary |-> [id |-> described[i].Id, name |-> described[i].Name,
                          description |-> described[i].Description,
                          type |-> described[i].Type],
      content |-> described[i].Content,
      has_targets |-> "Targets" \in described[i].fields,
      targets |-> [j \in DOMAIN described[i].Targets |->
                     camel_dict_to_snake_dict(described[i].Targets[j])]]]

\* main: the ids given or else those of the type, described one by one.
info_main(st, policy_ids, policy_type, fetch_targets, env) ==
  LET listed == IF policy_ids.given /\ policy_ids.ids # <<>>
                THEN ReturnValue(st, policy_ids.ids)
                ELSE info_list_policies(st, policy_type, env)
      described == info_describe_policies(
                     [listed EXCEPT !.status = "run", !.result = <<>>],
                     fetch_targets, listed.result, 1, <<>>, env)
  IN IF listed.status # "ok" THEN listed
     ELSE IF described.status # "ok" THEN [described EXCEPT !.result = <<>>]
     ELSE ReturnValue(described, info_normalize_policies(described.result))

----------------------------------------------------------------------------
(* Policies.list_policies and find_policy_by_name                          *)

\* The listing both methods begin with: _list_policies(Filter=policy_type)
\* and the refusal of an empty answer.
ListOfType(st, policy_type, env) ==
  LET filter == TYPE_MAPPING(policy_type)
      l == service_list_policies(st.svc, filter, env.list_policies)
      st1 == Called(st, [api |-> "list_policies", Filter |-> filter,
                         code |-> l.code])
  IN IF l.code # "ok"
     THEN [st |-> FailJson(st1,
                    [NoFailure EXCEPT !.msg = "Failed to list policies",
                                      !.exception = l.code]),
           Policies |-> <<>>]
     ELSE IF l.Policies = <<>>
     THEN [st |-> FailJson(st1, [NoFailure EXCEPT !.msg =
             "Failed to list policies - Policies missing from returned value."]),
           Policies |-> <<>>]
     ELSE [st |-> st1, Policies |-> l.Policies]

\* list_policies: the ids of the policies of the type.
list_policies(st, policy_type, env) ==
  LET l == ListOfType(st, policy_type, env)
  IN IF l.st.status # "run" THEN l.st
     ELSE ReturnValue(l.st, [i \in DOMAIN l.Policies |-> l.Policies[i].Id])

\* find_policy_by_name: the ids of the policies of the type with the name.
find_policy_by_name(st, name, policy_type, env) ==
  LET l == ListOfType(st, policy_type, env)
      matching_policies == SelectSeq(l.Policies, LAMBDA p : p.Name = name)
  IN IF l.st.status # "run" THEN l.st
     ELSE ReturnValue(l.st, [i \in DOMAIN matching_policies |->
                               matching_policies[i].Id])

----------------------------------------------------------------------------
(* plugins/modules/organization_policy.py                                  *)

\* Policies.normalize_policies: the keys in snake case, the tags as a dict.
normalize_policies(described) ==
  [i \in DOMAIN described |->
     [policy_summary |-> [id |-> described[i].Id, name |-> described[i].Name,
                          description |-> described[i].Description,
                          type |-> described[i].Type],
      content |-> described[i].Content,
      tags |-> boto3_tag_list_to_ansible_dict(described[i].Tags)]]

\* The first step of main: the ids of the policies the run is about.  With
\* several policies of the name the failure report reads the local
\* `policies`, which is assigned only at the end of main.
ResolvePolicyIds(st, params, env) ==
  IF Truthy(params.policy_id) THEN ReturnValue(st, <<params.policy_id>>)
  ELSE LET found == find_policy_by_name(st, params.name, params.policy_type,
                                        env)
       IN IF found.status # "ok" THEN found
          ELSE IF Len(found.result) > 1
          THEN Crash([found EXCEPT !.result = <<>>], "UnboundLocalError")
          ELSE found

\* The one element of a set of one.
TheOne(S) == CHOOSE x \in S : TRUE

\* update_policy_tags after update_policy returned u:
\* changed |= update_policy_tags(...).
UpdateFoundTags(u, rt, params, policy, env) ==
  TheOne({IF t.status # "ok" THEN t ELSE Return(t, u.changed \/ t.changed) :
            t \in {update_policy_tags([u EXCEPT !.status = "run"], rt, policy,
                                      params.has_tags, params.tags,
                                      params.purge_tags, env)}})

\* state=present with a policy found: update_policy, then the tags.
UpdateFound(st, rt, params, policy, env) ==
  TheOne({IF u.status # "ok" THEN u
          ELSE UpdateFoundTags(u, rt, params, policy, env) :
            u \in {update_policy(st, rt, policy, params.name,
                                 params.policy_content, params.description,
                                 env)}})

\* state=present with no policy found: create_policy, if there is a content.
CreateMissing(st, rt, params, env) ==
  IF ~Truthy(params.policy_content)
  THEN FailJson(st, [NoFailure EXCEPT !.msg =
         "Policy could not be found.  Unable to create a new policy because policy_content is not set"])
  ELSE create_policy(st, rt, params.name, params.policy_content,
                     params.policy_type, params.description,
                     [has_tags |-> params.has_tags, tags |-> params.tags], env)

\* The end of main: describe_policies(policy_ids) and exit_json.
ExitDescribed(st, policy_ids, env) ==
  TheOne({IF d.status # "ok" THEN [d EXCEPT !.result = <<>>]
          ELSE [d EXCEPT !.changed = st.changed,
                         !.result = normalize_policies(d.result)] :
            d \in {describe_policies([st EXCEPT !.status = "run",
                                                !.result = <<>>],
                                     FALSE, policy_ids, env)}})

\* main once policy_ids is known (ids is the outcome of the first step).
MainWith(ids, rt, params, env) ==
  LET policy_ids == ids.result
      st1 == [ids EXCEPT !.status = "run", !.result = <<>>]
  IN IF ids.status # "ok" THEN ids
     ELSE IF params.state = "absent"
     THEN delete_policies(st1, rt, TRUE, policy_ids, params.force_delete, env)
     ELSE TheOne({IF changed.status # "ok" THEN changed
                  ELSE ExitDescribed(changed,
                         IF policy_ids # <<>> THEN policy_ids
                         ELSE IF changed.created # None
                         THEN <<changed.created>>
                         ELSE <<>>,
                         env) :
                    changed \in {IF policy_ids # <<>>
                                 THEN UpdateFound(st1, rt, params,
                                                  policy_ids[1], env)
                                 ELSE CreateMissing(st1, rt, params, env)}})

policy_main(st, rt, params, env) ==
  TheOne({MainWith(ids, rt, params, env) :
            ids \in {ResolvePolicyIds(st, params, env)}})

----------------------------------------------------------------------------
(* OrgUnits.list_ous                                                       *)

service_list_roots(orgn, fault) ==
  IF fault \in {"denied", "error"}
  THEN [code |-> FaultCode(fault), Roots |-> <<>>]
  ELSE [code |-> "ok", Roots |-> [i \in DOMAIN orgn.roots |-> [Id |-> orgn.roots[i]]]]

\* list_organizational_units_for_parent, paginated to completion: the OUs
\* right under the parent, in the order the service lists them.
list_organizational_units_for_parent(orgn, parent, fault) ==
  IF fault \in {"denied", "error"}
  THEN [code |-> FaultCode(fault), OrganizationalUnits |-> <<>>]
  ELSE IF ~OuExists(orgn, parent)
  THEN [code |-> "ParentNotFoundException", OrganizationalUnits |-> <<>>]
  ELSE LET kids == SelectSeq(OuOrder, LAMBDA o : orgn.parent[o] = parent)
       IN [code |-> "ok",
           OrganizationalUnits |-> [i \in DOMAIN kids |-> [Id |-> kids[i]]]]

\* normalize_roots: `normalized += [_root]` stands after the loop, so the
\* result holds the last root only; `_root` is unbound when there is none.
normalize_roots(roots) ==
  IF roots = <<>> THEN [raised |-> "UnboundLocalError", roots |-> <<>>]
  ELSE [raised |-> "", roots |-> <<[id |-> roots[Len(roots)].Id]>>]

\* list_roots: the roots, or a hard failure.
list_roots(st, orgn, env) ==
  LET r == service_list_roots(orgn, env.list_roots)
      st1 == Called(st, [api |-> "list_roots", code |-> r.code])
  IN IF r.code # "ok"
     THEN FailJson(st1,
            [NoFailure EXCEPT !.msg = "Failed to list Organization roots",
                              !.exception = r.code])
     ELSE ReturnValue(st1, r.Roots)

\* Several roots taken for one.
TooManyRootsNever(roots) == FALSE

\* `elif len(roots) > 1`
TooManyRoots(roots) == Len(roots) > 1

\* `if not parent`: the parent given, or else the only root.
ResolveParent(st, orgn, parent, env) ==
  IF Truthy(parent) THEN [st |-> st, parent |-> parent]
  ELSE LET st1 == list_roots(st, orgn, env)
           roots == st1.result
       IN IF st1.status # "ok" THEN [st |-> st1, parent |-> None]
          ELSE IF roots = <<>>
          THEN [st |-> FailJson([st1 EXCEPT !.result = <<>>],
                  [NoFailure EXCEPT !.msg =
                     "Unable to list Organization Roots, a parent must be specified"]),
                parent |-> None]
          ELSE IF TooManyRoots(roots)
          THEN [st |-> IF normalize_roots(roots).raised # ""
                       THEN Crash([st1 EXCEPT !.result = <<>>],
                                  normalize_roots(roots).raised)
                       ELSE FailJson([st1 EXCEPT !.result = <<>>],
                              [NoFailure EXCEPT !.msg =
                                 "Found multiple Organization Roots, a parent must be specified",
                                 !.roots = normalize_roots(roots).roots]),
                parent |-> None]
          ELSE [st |-> [st1 EXCEPT !.status = "run", !.result = <<>>],
                parent |-> roots[1].Id]

\* The recursion guard with `recurse` left out.
DescendIgnoringRecurse(recurse, max_depth) == max_depth > 0

\* `if recurse and max_depth > 0`
Descend(recurse, max_depth) == recurse /\ max_depth > 0

RECURSIVE list_ous(_, _, _, _, _, _)

\* `for child in list(ous): ous += self.list_ous(child, ..., max_depth - 1)`,
\* from the i-th child on; st.result is `ous` so far.
RECURSIVE ListEach(_, _, _, _, _, _, _)
ListEach(st, orgn, children, i, recurse, max_depth, env) ==
  IF i > Len(children) THEN ReturnValue(st, st.result)
  ELSE LET sub == list_ous([st EXCEPT !.status = "run", !.result = <<>>],
                           orgn, children[i].Id, recurse, max_depth - 1, env)
       IN IF sub.status # "ok" THEN sub
          ELSE ListEach([sub EXCEPT !.status = "run",
                                    !.result = st.result \o sub.result],
                        orgn, children, i + 1, recurse, max_depth, env)

list_ous(st, orgn, parent, recurse, max_depth, env) ==
  LET r == ResolveParent(st, orgn, parent, env)
  IN IF r.st.status # "run" THEN r.st
     ELSE LET l == list_organizational_units_for_parent(
                     orgn, r.parent, env.list_ous[r.parent])
              st1 == Called(r.st,
                       [api |-> "list_organizational_units_for_parent",
                        ParentId |-> r.parent, code |-> l.code])
          IN IF l.code # "ok"
             THEN FailJson(st1, [NoFailure EXCEPT !.msg = "Failed to list ous",
                                                  !.exception = l.code])
             ELSE IF Descend(recurse, max_depth)
             THEN ListEach([st1 EXCEPT !.result = l.OrganizationalUnits], orgn,
                           l.OrganizationalUnits, 1, recurse, max_depth, env)
             ELSE ReturnValue(st1, l.OrganizationalUnits)

----------------------------------------------------------------------------
(* OrgUnits.describe_ou and describe_ous                                   *)

describe_organizational_unit(orgn, ou, fault) ==
  IF fault \in {"denied", "error"} THEN [code |-> FaultCode(fault), Id |-> None]
  ELSE IF ~(ou \in OUs /\ OuExists(orgn, ou))
  THEN [code |-> "OrganizationalUnitNotFoundException", Id |-> None]
  ELSE [code |-> "ok", Id |-> ou]

\* list_tags_for_resource on an OU, paginated to completion.
ou_list_tags_for_resource(orgn, ou, fault) ==
  IF fault \in {"denied", "error"} THEN [code |-> FaultCode(fault), items |-> <<>>]
  ELSE IF ~(ou \in OUs /\ OuExists(orgn, ou))
  THEN [code |-> "TargetNotFoundException", items |-> <<>>]
  ELSE [code |-> "ok", items |-> ansible_dict_to_boto3_tag_list(orgn.tags[ou])]

\* list_parents(ChildId), ids only.
list_parents(orgn, child, fault) ==
  IF fault \in {"denied", "error"} THEN [code |-> FaultCode(fault), items |-> <<>>]
  ELSE IF ~(child \in OUs /\ OuExists(orgn, child))
  THEN [code |-> "ChildNotFoundException", items |-> <<>>]
  ELSE [code |-> "ok", items |-> <<orgn.parent[child]>>]

\* list_children(ParentId, ChildType), ids only.
list_children(orgn, parent, child_type, fault) ==
  IF fault \in {"denied", "error"} THEN [code |-> FaultCode(fault), items |-> <<>>]
  ELSE IF ~OuExists(orgn, parent)
  THEN [code |-> "ParentNotFoundException", items |-> <<>>]
  ELSE IF child_type = "ACCOUNT"
  THEN [code |-> "ok",
        items |-> SelectSeq(AccountOrder,
                            LAMBDA a : orgn.account_parent[a] = parent)]
  ELSE [code |-> "ok",
        items |-> SelectSeq(OuOrder, LAMBDA o : orgn.parent[o] = parent)]

\* list_policies_for_target(TargetId, Filter)
list_policies_for_target(orgn, target, filter, fault) ==
  IF fault \in {"denied", "error"} THEN [code |-> FaultCode(fault), items |-> <<>>]
  ELSE IF ~(target \in OUs /\ OuExists(orgn, target))
  THEN [code |-> "TargetNotFoundException", items |-> <<>>]
  ELSE [code |-> "ok",
        items |-> SelectSeq(orgn.attached[target], LAMBDA x : x.Type = filter)]

\* The argument `ou` of describe_ou: an id, or the dict of a listing.
OuId(id) == [is_dict |-> FALSE, Id |-> id]

OuDict(d) == [is_dict |-> TRUE, Id |-> d.Id]

\* The description of an OU: a dict with the keys `fields`.
NoOuDescription ==
  [Id |-> None, fields |-> {}, Tags |-> <<>>, Parents |-> <<>>,
   ChildAccounts |-> <<>>, ChildOus |-> <<>>, AttachedPolicies |-> <<>>]

\* An auxiliary query with no `except` clause for access-denied.
DegradesNever(code) == FALSE

\* `except is_boto3_error_code('AccessDeniedException')` of an auxiliary
\* query: warn and go on with nothing.
Degrades(code) == code = "AccessDeniedException"

\* One auxiliary query of describe_ou: the call, and what its answer means.
SubQuery(st, call, answer, warning, message) ==
  LET st1 == Called(st, call @@ [code |-> answer.code])
  IN IF answer.code = "ok" THEN [st |-> st1, items |-> answer.items]
     ELSE IF Degrades(answer.code)
     THEN [st |-> Warn(st1, warning), items |-> <<>>]
     ELSE [st |-> FailJson(st1, [NoFailure EXCEPT !.msg = message,
                                                  !.exception = answer.code]),
           items |-> <<>>]

\* _describe_ou: the dict as it is, or describe_organizational_unit.
DescribeBase(st, orgn, ou, env) ==
  IF ou.is_dict THEN [st |-> st, Id |-> ou.Id]
  ELSE LET d == describe_organizational_unit(orgn, ou.Id, env.ou_describe)
           st1 == Called(st, [api |-> "describe_organizational_unit",
                              OrganizationalUnitId |-> ou.Id, code |-> d.code])
       IN IF d.code = "ok" THEN [st |-> st1, Id |-> d.Id]
          ELSE IF d.code = "OrganizationalUnitNotFoundException"
          THEN [st |-> ReturnValue(st1, <<>>), Id |-> None]
          ELSE [st |-> FailJson(st1,
                         [NoFailure EXCEPT !.msg = "Failed to list Organization roots",
                                           !.exception = d.code]),
                Id |-> None]

\* _describe_attached_policies: one query per policy type, from the i-th
\* type on; st.result is `policies` so far.
RECURSIVE DescribeAttached(_, _, _, _, _)
DescribeAttached(st, orgn, ou_id, i, env) ==
  IF i > Len(AttachedTypes) THEN st
  ELSE LET policy_type == AttachedTypes[i]
           q == SubQuery([st EXCEPT !.result = <<>>],
                  [api |-> "list_policies_for_target", TargetId |-> ou_id,
                   Filter |-> policy_type],
                  list_policies_for_target(orgn, ou_id, policy_type,
                                           env.sub[policy_type]),
                  "Access Denied fetching attached " \o policy_type,
                  "Failed to list attached policies")
       IN IF q.st.status # "run" THEN q.st
          ELSE DescribeAttached([q.st EXCEPT !.result = st.result \o q.items],
                                orgn, ou_id, i + 1, env)

\* `if fetch_attachments`: the parents, the child accounts, the child OUs
\* and the attached policies, each added to the description d.
DescribeAttachments(st, orgn, d, env) ==
  LET parents == SubQuery(st,
                   [api |-> "list_parents", ChildId |-> d.Id],
                   list_parents(orgn, d.Id, env.sub["parents"]),
                   "Access Denied fetching Parents", "Failed to list Parents")
      accounts == SubQuery(parents.st,
                    [api |-> "list_children", ParentId |-> d.Id,
                     ChildType |-> "ACCOUNT"],
                    list_children(orgn, d.Id, "ACCOUNT", env.sub["accounts"]),
                    "Access Denied fetching Child Accounts",
                    "Failed to list Child Accounts")
      child_ous == SubQuery(accounts.st,
                     [api |-> "list_children", ParentId |-> d.Id,
                      ChildType |-> "ORGANIZATIONAL_UNIT"],
                     list_children(orgn, d.Id, "ORGANIZATIONAL_UNIT",
                                   env.sub["child_ous"]),
                     "Access Denied fetching Child OUs",
                     "Failed to list Child OUs")
      policies_st == DescribeAttached([child_ous.st EXCEPT !.result = <<>>],
                                      orgn, d.Id, 1, env)
  IN IF parents.st.status # "run" THEN parents.st
     ELSE IF accounts.st.status # "run" THEN accounts.st
     ELSE IF child_ous.st.status # "run" THEN child_ous.st
     ELSE IF policies_st.status # "run" THEN policies_st
     ELSE ReturnValue(policies_st,
            <<[d EXCEPT !.fields = @ \cup {"Parents", "ChildAccounts",
                                           "ChildOus", "AttachedPolicies"},
                        !.Parents = parents.items,
                        !.ChildAccounts = accounts.items,
                        !.ChildOus = child_ous.items,
                        !.AttachedPolicies = policies_st.result]>>)

\* describe_ou: None (an empty result) or the description (a result of one).
describe_ou(st, orgn, ou, fetch_attachments, env) ==
  IF ~Truthy(ou.Id) THEN ReturnValue(st, <<>>)
  ELSE LET b == DescribeBase(st, orgn, ou, env)
       IN IF b.st.status # "run" THEN b.st
          ELSE LET t == ou_list_tags_for_resource(orgn, b.Id, env.ou_tags[b.Id])
                   st1 == Called(b.st, [api |-> "list_tags_for_resource",
                                        ResourceId |-> b.Id, code |-> t.code])
                   d == [NoOuDescription EXCEPT !.Id = b.Id,
                                                !.fields = {"Id", "Tags"},
                                                !.Tags = t.items]
               IN IF t.code # "ok" THEN Crash(st1, t.code)
                  ELSE IF fetch_attachments
                  THEN DescribeAttachments(st1, orgn, d, env)
                  ELSE ReturnValue(st1, <<d>>)

\* The loop of describe_ous, from the i-th listed OU on; `described` is
\* described_ous so far.
RECURSIVE DescribeEachOu(_, _, _, _, _, _, _)
DescribeEachOu(st, orgn, ous, i, fetch_attachments, described, env) ==
  IF i > Len(ous) THEN ReturnValue(st, described)
  ELSE LET one == describe_ou([st EXCEPT !.status = "run", !.result = <<>>],
                              orgn, OuDict(ous[i]), fetch_attachments, env)
       IN IF one.status # "ok" THEN [one EXCEPT !.result = <<>>]
          ELSE DescribeEachOu([one EXCEPT !.status = "run"], orgn, ous, i + 1,
                              fetch_attachments, described \o one.result, env)

describe_ous(st, orgn, parent_id, recurse, max_depth, fetch_attachments, env) ==
  LET l == list_ous(st, orgn, parent_id, recurse, max_depth, env)
  IN IF l.status # "ok" THEN l
     ELSE DescribeEachOu([l EXCEPT !.status = "run", !.result = <<>>], orgn,
                         l.result, 1, fetch_attachments, <<>>, env)

----------------------------------------------------------------------------
(* The invocations.                                                        *)

Mutating ==
  {"update_policy", "create_policy", "tag_resource", "untag_resource",
   "detach_policy", "delete_policy"}

CallsOf(calls, api) == {i \in DOMAIN calls : calls[i].api = api}

\* The auxiliary query of describe_ou a call belongs to ("" for any other).
QueryOf(call) ==
  IF call.api = "list_parents" THEN "parents"
  ELSE IF call.api = "list_children"
  THEN IF call.ChildType = "ACCOUNT" THEN "accounts" ELSE "child_ous"
  ELSE IF call.api = "list_policies_for_target" THEN call.Filter
  ELSE ""

\* A fault counts only where the call it belongs to was issued: the
\* environment of a run is what the run saw of it.
Consumed(env, calls) ==
  /\ \A p \in PolicyIds :
       /\ env.list[p] # "none" =>
            \E i \in CallsOf(calls, "list_targets_for_policy") :
              calls[i].PolicyId = p
       /\ env.delete[p] # "none" =>
            \E i \in CallsOf(calls, "delete_policy") : calls[i].PolicyId = p
  /\ \A t \in Targets :
       env.detach[t] # "none" =>
         \E i \in CallsOf(calls, "detach_policy") : calls[i].TargetId = t
  /\ env.describe # "none" => CallsOf(calls, "describe_policy") # {}
  /\ env.update # "none" => CallsOf(calls, "update_policy") # {}
  /\ env.list_tags # "none" => CallsOf(calls, "list_tags_for_resource") # {}
  /\ env.tag # "none" => CallsOf(calls, "tag_resource") # {}
  /\ env.untag # "none" => CallsOf(calls, "untag_resource") # {}
  /\ env.create # "none" => CallsOf(calls, "create_policy") # {}
  /\ env.list_roots # "none" => CallsOf(calls, "list_roots") # {}
  /\ \A n \in Nodes :
       env.list_ous[n] # "none" =>
         \E i \in CallsOf(calls, "list_organizational_units_for_parent") :
           calls[i].ParentId = n
  /\ env.ou_describe # "none" =>
       CallsOf(calls, "describe_organizational_unit") # {}
  /\ env.list_policies # "none" => CallsOf(calls, "list_policies") # {}
  /\ \A p \in PolicyIds :
       /\ env.describe_each[p] # "none" =>
            \E i \in CallsOf(calls, "describe_policy") : calls[i].PolicyId = p
       /\ env.tags_each[p] # "none" =>
            \E i \in CallsOf(calls, "list_tags_for_resource") :
              calls[i].ResourceId = p
  /\ \A o \in OUs :
       env.ou_tags[o] # "none" =>
         \E i \in CallsOf(calls, "list_tags_for_resource") :
           calls[i].ResourceId = o
  /\ \A q \in SubQueries :
       env.sub[q] # "none" => \E i \in DOMAIN calls : QueryOf(calls[i]) = q

\* The functions on S that are "none" outside T and any of F on T.
FaultsOn(S, T, F) ==
  {[x \in S |-> IF x \in T THEN f[x] ELSE "none"] : f \in [T -> F]}

\* The faults that can meet the deletion of the policies ps.
DeleteEnvs(ps) ==
  {[NoEnv EXCEPT !.list = l, !.detach = d, !.delete = x] :
     l \in FaultsOn(PolicyIds, ps, {"none", "denied", "error"}),
     d \in FaultsOn(Targets,
                    UNION {Range(policies[p].targets) : p \in ps},
                    {"none", "race", "error"}),
     x \in FaultsOn(PolicyIds, ps, {"none", "race", "error"})}

Runtimes == [check_mode : BOOLEAN]

Invocation(op, args, rt, env, out) ==
  [op |-> op, args |-> args, rt |-> rt, env |-> env, pre |-> policies,
   status |-> out.status, changed |-> out.changed, failure |-> out.failure,
   calls |-> out.calls, warnings |-> out.warnings, created |-> out.created,
   result |-> out.result]

NotStarted ==
  [op |-> "none", args |-> NoArgs, rt |-> [check_mode |-> FALSE],
   env |-> NoEnv, pre |-> policies, status |-> "none", changed |-> FALSE,
   failure |-> NoFailure, calls |-> <<>>, warnings |-> <<>>,
   created |-> None, result |-> <<>>]

\* The attachments a policy can have, in the order the service lists them.
TargetLists == UNION {Perms(S) : S \in SUBSET Targets}

\* The policy stores an invocation can find.  The first policy is absent or
\* attached to any targets in any order; the second is absent, unattached or
\* attached to one target.
AttachStores ==
  {[p \in PolicyIds |-> IF p = "p1" THEN a ELSE b] :
     a \in {Absent} \cup {[DefaultPolicy EXCEPT !.targets = t] :
                            t \in TargetLists},
     b \in {Absent, DefaultPolicy,
            [DefaultPolicy EXCEPT !.name = "n2", !.targets = <<"t1">>]}}

\* Stores in which the first policy carries any tags.
TagStores ==
  {[p \in PolicyIds |-> IF p = "p1" THEN [DefaultPolicy EXCEPT !.tags = t]
                        ELSE Absent] : t \in TagMaps}

InitStores == AttachStores \cup TagStores

Init ==
  /\ policies \in InitStores
  /\ org = DefaultOrg
  /\ last = NotStarted

DeletePolicy ==
  /\ last.op = "none"
  /\ \E policy \in PolicyIds \cup {None}, force_delete \in BOOLEAN,
        rt \in Runtimes :
     \E env \in DeleteEnvs(PolicyIds \cap {policy}) :
       LET out == delete_policy(Start(policies), rt, policy, force_delete, env)
       IN /\ Consumed(env, out.calls)
          /\ policies' = out.svc
          /\ UNCHANGED org
          /\ last' = Invocation("delete_policy",
                       [NoArgs EXCEPT !.policy = policy,
                                      !.force_delete = force_delete],
                       rt, env, out)

PolicyLists == UNION {Perms(S) : S \in SUBSET PolicyIds}

DeletePolicies ==
  /\ last.op = "none"
  /\ \E has_policies \in BOOLEAN, policy_list \in PolicyLists,
        force_delete \in BOOLEAN, rt \in Runtimes :
     \E env \in DeleteEnvs(Range(policy_list)) :
       LET out == delete_policies(Start(policies), rt, has_policies,
                                  policy_list, force_delete, env)
       IN /\ has_policies \/ policy_list = <<>>
          /\ Consumed(env, out.calls)
          /\ policies' = out.svc
          /\ UNCHANGED org
          /\ last' = Invocation("delete_policies",
                       [NoArgs EXCEPT !.has_policies = has_policies,
                                      !.policy_list = policy_list,
                                      !.force_delete = force_delete],
                       rt, env, out)

OptionalOf(S) == {None, ""} \cup S

UpdateEnvs ==
  {[NoEnv EXCEPT !.describe = d, !.update = u] :
     d \in {"none", "denied", "error"}, u \in {"none", "error"}}

UpdatePolicy ==
  /\ last.op = "none"
  /\ \E policy \in PolicyIds, name \in OptionalOf(Names),
        content \in OptionalOf(Contents),
        description \in OptionalOf(Descriptions),
        rt \in Runtimes, env \in UpdateEnvs :
       LET out == update_policy(Start(policies), rt, policy, name, content,
                                description, env)
       IN /\ Consumed(env, out.calls)
          /\ policies' = out.svc
          /\ UNCHANGED org
          /\ last' = Invocation("update_policy",
                       [NoArgs EXCEPT !.policy = policy, !.name = name,
                                      !.content = content,
                                      !.description = description],
                       rt, env, out)

PolicyTypes ==
  {None, "service_control", "aiservices_opt_out", "backup", "tag",
   "SERVICE_CONTROL_POLICY", "AISERVICES_OPT_OUT_POLICY", "BACKUP_POLICY",
   "TAG_POLICY"}

CreateEnvs ==
  {[NoEnv EXCEPT !.create = c, !.tag = t] :
     c \in {"none", "error"}, t \in {"none", "denied", "error"}}

\* The tags an invocation can ask for: none given, or a mapping.
TagArgs ==
  {[has_tags |-> FALSE, tags |-> NoTags]} \cup
  {[has_tags |-> TRUE, tags |-> t] : t \in TagMaps}

CreatePolicy ==
  /\ last.op = "none"
  /\ \E name \in {"n1"}, content \in {ContentAB},
        policy_type \in PolicyTypes, description \in {None, "", "d1"},
        ta \in {a \in TagArgs : "k2" \in DOMAIN a.tags => "k1" \in DOMAIN a.tags},
        rt \in Runtimes, env \in CreateEnvs :
       LET out == create_policy(Start(policies), rt, name, content,
                                policy_type, description, ta, env)
       IN /\ Consumed(env, out.calls)
          /\ policies' = out.svc
          /\ UNCHANGED org
          /\ last' = Invocation("create_policy",
                       [NoArgs EXCEPT !.name = name, !.content = content,
                                      !.policy_type = policy_type,
                                      !.description = description,
                                      !.has_tags = ta.has_tags,
                                      !.tags = ta.tags],
                       rt, env, out)

TagEnvs ==
  {[NoEnv EXCEPT !.list_tags = l, !.tag = t, !.untag = u] :
     l \in {"none", "denied", "error"}, t \in {"none", "error"},
     u \in {"none", "error"}}

UpdatePolicyTags ==
  /\ last.op = "none"
  /\ \E policy \in PolicyIds, ta \in TagArgs, purge_tags \in BOOLEAN,
        rt \in Runtimes, env \in TagEnvs :
       LET out == update_policy_tags(Start(policies), rt, policy, ta.has_tags,
                                     ta.tags, purge_tags, env)
       IN /\ Consumed(env, out.calls)
          /\ policies' = out.svc
          /\ UNCHANGED org
          /\ last' = Invocation("update_policy_tags",
                       [NoArgs EXCEPT !.policy = policy,
                                      !.has_tags = ta.has_tags,
                                      !.tags = ta.tags,
                                      !.purge_tags = purge_tags],
                       rt, env, out)

Next ==
  \/ DeletePolicy
  \/ DeletePolicies
  \/ UpdatePolicy
  \/ CreatePolicy
  \/ UpdatePolicyTags

Spec == Init /\ [][Next]_vars

----------------------------------------------------------------------------
(* The invocations of the describing side: OrgUnits, the describe methods  *)
(* of Policies and the organization_policy_info module.  They run against  *)
(* every organization tree, also one whose parent relation has a cycle.    *)

\* Every parent relation over the OUs: trees, forests, missing OUs, cycles.
OrgStores ==
  {[DefaultOrg EXCEPT !.parent = f] : f \in [OUs -> {"r1", None} \cup OUs]}
  \cup {[DefaultOrg EXCEPT !.roots = r] :
          r \in {<<>>, <<"r1", "r2">>, <<"r2", "r1">>}}

InfoInit ==
  /\ \/ policies \in InitStores /\ org = DefaultOrg
     \/ policies = [p \in PolicyIds |-> Absent] /\ org \in OrgStores
  /\ last = NotStarted

\* The faults that can meet a listing: one on list_roots, or one on the
\* listing of one parent.
ListEnvs ==
  {NoEnv, [NoEnv EXCEPT !.list_roots = "error"]}
  \cup {[NoEnv EXCEPT !.list_ous[n] = "error"] : n \in Nodes}

ListOus ==
  /\ last.op = "none"
  /\ \E parent \in {None, "r1"} \cup OUs, recurse \in BOOLEAN,
        max_depth \in -1..MaxDepth, env \in ListEnvs :
       LET out == list_ous(Start(policies), org, parent, recurse, max_depth, env)
       IN /\ Consumed(env, out.calls)
          /\ UNCHANGED <<policies, org>>
          /\ last' = Invocation("list_ous",
                       [NoArgs EXCEPT !.parent = parent, !.recurse = recurse,
                                      !.max_depth = max_depth],
                       [check_mode |-> FALSE], env, out)

\* The faults that can meet the description of the OUs os: one on the base
\* describe, or one on the tags of one OU, or up to two on the queries for
\* the attachments.
DescribeOuEnvs(os) ==
  {NoEnv}
  \cup {[NoEnv EXCEPT !.ou_describe = f] : f \in {"denied", "error"}}
  \cup {[NoEnv EXCEPT !.ou_tags[o] = f] : o \in os, f \in {"denied", "error"}}
  \cup {[NoEnv EXCEPT !.sub[q1] = "denied", !.sub[q2] = f2] :
          q1 \in SubQueries, q2 \in SubQueries,
          f2 \in {"denied", "error"}}

DescribeOu ==
  /\ last.op = "none"
  /\ \E ou \in {None} \cup OUs, fetch_attachments \in BOOLEAN :
     \E env \in DescribeOuEnvs(OUs \cap {ou}) :
       LET out == describe_ou(Start(policies), org, OuId(ou),
                              fetch_attachments, env)
       IN /\ Consumed(env, out.calls)
          /\ UNCHANGED <<policies, org>>
          /\ last' = Invocation("describe_ou",
                       [NoArgs EXCEPT !.ou = ou,
                                      !.fetch_attachments = fetch_attachments],
                       [check_mode |-> FALSE], env, out)

\* The faults that can meet describe_ous: one on a listing, one on the tags
\* of one OU, or one on a query for the attachments.
DescribeOusEnvs ==
  ListEnvs
  \cup {[NoEnv EXCEPT !.ou_tags[o] = f] : o \in OUs, f \in {"denied", "error"}}
  \cup {[NoEnv EXCEPT !.sub[q] = f] :
          q \in {"parents", "accounts"}, f \in {"denied", "error"}}

DescribeOus ==
  /\ last.op = "none"
  /\ \E parent_id \in {None, "o1"}, recurse \in BOOLEAN,
        max_depth \in {0, MaxDepth}, fetch_attachments \in BOOLEAN,
        env \in DescribeOusEnvs :
       LET out == describe_ous(Start(policies), org, parent_id, recurse,
                               max_depth, fetch_attachments, env)
       IN /\ Consumed(env, out.calls)
          /\ UNCHANGED <<policies, org>>
          /\ last' = Invocation("describe_ous",
                       [NoArgs EXCEPT !.parent = parent_id, !.recurse = recurse,
                                      !.max_depth = max_depth,
                                      !.fetch_attachments = fetch_attachments],
                       [check_mode |-> FALSE], env, out)

\* The number of faults in the functions fs.
FaultCount(fs) ==
  Cardinality({<<i, x>> \in UNION {{i} \X DOMAIN fs[i] : i \in DOMAIN fs} :
                 fs[i][x] # "none"})

\* The faults that can meet the description of the policies ps: up to two,
\* on the describe, the tag listing or the target listing of a policy.
DescribePolicyEnvs(ps) ==
  {e \in {[NoEnv EXCEPT !.describe_each = d, !.tags_each = t, !.list = l] :
            d \in FaultsOn(PolicyIds, ps, {"none", "denied", "error"}),
            t \in FaultsOn(PolicyIds, ps, {"none", "denied", "error"}),
            l \in FaultsOn(PolicyIds, ps, {"none", "denied", "error"})} :
     FaultCount(<<e.describe_each, e.tags_each, e.list>>) <= 2}

DescribePolicies ==
  /\ last.op = "none"
  /\ \E policy_list \in PolicyLists, fetch_targets \in BOOLEAN :
     \E env \in DescribePolicyEnvs(Range(policy_list)) :
       LET out == describe_policies(Start(policies), fetch_targets,
                                    policy_list, env)
       IN /\ Consumed(env, out.calls)
          /\ UNCHANGED <<policies, org>>
          /\ last' = Invocation("describe_policies",
                       [NoArgs EXCEPT !.policy_list = policy_list,
                                      !.fetch_targets = fetch_targets],
                       [check_mode |-> FALSE], env, out)

\* The parameters policy_ids and policy_type of the module: at most one of
\* them is given.
InfoSelectors ==
  {[given |-> TRUE, ids |-> l, policy_type |-> None] : l \in PolicyLists}
  \cup {[given |-> FALSE, ids |-> <<>>, policy_type |-> t] :
          t \in PolicyTypes}

InfoEnvs(ps) ==
  {e \in {[NoEnv EXCEPT !.describe_each = d, !.list = l, !.list_policies = x] :
            d \in FaultsOn(PolicyIds, ps, {"none", "denied", "error"}),
            l \in FaultsOn(PolicyIds, ps, {"none", "denied", "error"}),
            x \in {"none", "error"}} :
     FaultCount(<<e.describe_each, e.list>>) <= 2}

PolicyInfo ==
  /\ last.op = "none"
  /\ \E sel \in InfoSelectors, fetch_targets \in BOOLEAN :
     \E env \in InfoEnvs(IF sel.given /\ sel.ids # <<>> THEN Range(sel.ids)
                         ELSE PolicyIds) :
       LET out == info_main(Start(policies),
                            [given |-> sel.given, ids |-> sel.ids],
                            sel.policy_type, fetch_targets, env)
       IN /\ Consumed(env, out.calls)
          /\ UNCHANGED <<policies, org>>
          /\ last' = Invocation("organization_policy_info",
                       [NoArgs EXCEPT !.has_policy_ids = sel.given,
                                      !.policy_ids = sel.ids,
                                      !.policy_type = sel.policy_type,
                                      !.fetch_targets = fetch_targets],
                       [check_mode |-> FALSE], env, out)

InfoNext ==
  \/ ListOus
  \/ DescribeOu
  \/ DescribeOus
  \/ DescribePolicies
  \/ PolicyInfo

InfoSpec == InfoInit /\ [][InfoNext]_vars

----------------------------------------------------------------------------
(* The invocations of the organization_policy module and of the methods    *)
(* that take a policy type.  They run against stores whose policies differ *)
(* in name and in type.                                                    *)

\* The first policy is absent, or a service control or tag policy named n1;
\* the second is absent or a policy of either name and type.
ModuleStores ==
  {[p \in PolicyIds |-> IF p = "p1" THEN a ELSE b] :
     a \in {Absent, DefaultPolicy,
            [DefaultPolicy EXCEPT !.targets = <<"t1">>],
            [DefaultPolicy EXCEPT !.type = "TAG_POLICY"]},
     b \in {Absent, DefaultPolicy,
            [DefaultPolicy EXCEPT !.name = "n2"],
            [DefaultPolicy EXCEPT !.type = "TAG_POLICY"],
            [DefaultPolicy EXCEPT !.tags = [k \in {"k1"} |-> "v1"]]}}

ModuleInit ==
  /\ policies \in ModuleStores
  /\ org = DefaultOrg
  /\ last = NotStarted

\* The parameters of the module as the argument_spec lets them through:
\* policy_id or name is given, name is given when state is present, and
\* policy_id and policy_type are not given together.
ModuleSelectors ==
  {[policy_id |-> p, name |-> n, policy_type |-> None] :
     p \in PolicyIds, n \in {None} \cup Names}
  \cup {[policy_id |-> None, name |-> n, policy_type |-> t] :
          n \in Names, t \in {None, "tag", "TAG_POLICY", "backup"}}

ModuleParams ==
  {[state |-> "absent", name |-> sel.name, description |-> None,
    policy_id |-> sel.policy_id, policy_type |-> sel.policy_type,
    policy_content |-> None, force_delete |-> f, has_tags |-> FALSE,
    tags |-> NoTags, purge_tags |-> TRUE] :
     sel \in ModuleSelectors, f \in BOOLEAN}
  \cup {[state |-> "present", name |-> sel.name, description |-> d,
         policy_id |-> sel.policy_id, policy_type |-> sel.policy_type,
         policy_content |-> c, force_delete |-> FALSE,
         has_tags |-> ta.has_tags, tags |-> ta.tags, purge_tags |-> TRUE] :
          sel \in {x \in ModuleSelectors : x.name # None},
          d \in {None, "d1"}, c \in {None, ContentAB, ContentA2},
          ta \in {a \in TagArgs : a.tags \in {NoTags, [k \in {"k1"} |-> "v1"]}}}

\* The faults that can meet a run of the module: at most one.
ModuleEnvs ==
  {NoEnv}
  \cup {[NoEnv EXCEPT !.list_policies = "error"],
        [NoEnv EXCEPT !.create = "error"], [NoEnv EXCEPT !.tag = "error"],
        [NoEnv EXCEPT !.update = "error"]}
  \cup {[NoEnv EXCEPT !.delete[p] = "error"] : p \in PolicyIds}
  \cup {[NoEnv EXCEPT !.describe_each[p] = "error"] : p \in PolicyIds}

PolicyModule ==
  /\ last.op = "none"
  /\ \E params \in ModuleParams, rt \in Runtimes, env \in ModuleEnvs :
       LET out == policy_main(Start(policies), rt, params, env)
       IN /\ Consumed(env, out.calls)
          /\ policies' = out.svc
          /\ UNCHANGED org
          /\ last' = Invocation("organization_policy",
                       [NoArgs EXCEPT !.state = params.state,
                                      !.policy = params.policy_id,
                                      !.name = params.name,
                                      !.description = params.description,
                                      !.policy_type = params.policy_type,
                                      !.content = params.policy_content,
                                      !.force_delete = params.force_delete,
                                      !.has_tags = params.has_tags,
                                      !.tags = params.tags,
                                      !.purge_tags = params.purge_tags],
                       rt, env, out)

ListingEnvs == {NoEnv, [NoEnv EXCEPT !.list_policies = "error"]}

FindPolicyByName ==
  /\ last.op = "none"
  /\ \E name \in Names, policy_type \in PolicyTypes, env \in ListingEnvs :
       LET out == find_policy_by_name(Start(policies), name, policy_type, env)
       IN /\ Consumed(env, out.calls)
          /\ UNCHANGED <<policies, org>>
          /\ last' = Invocation("find_policy_by_name",
                       [NoArgs EXCEPT !.name = name,
                                      !.policy_type = policy_type],
                       [check_mode |-> FALSE], env, out)

ListPolicies ==
  /\ last.op = "none"
  /\ \E policy_type \in PolicyTypes, env \in ListingEnvs :
       LET out == list_policies(Start(policies), policy_type, env)
       IN /\ Consumed(env, out.calls)
          /\ UNCHANGED <<policies, org>>
          /\ last' = Invocation("list_policies",
                       [NoArgs EXCEPT !.policy_type = policy_type],
                       [check_mode |-> FALSE], env, out)

ModuleNext ==
  \/ PolicyModule
  \/ FindPolicyByName
  \/ ListPolicies
  \/ CreatePolicy
  \/ PolicyInfo

ModuleSpec == ModuleInit /\ [][ModuleNext]_vars

----------------------------------------------------------------------------
(* What the properties read off the record of the invocation.              *)

IsDelete == last.op = "delete_policy"

IsReal == ~last.rt.check_mode

\* The calls of the run to one API, in the order issued.
CallsTo(api) == SelectSeq(last.calls, LAMBDA c : c.api = api)

\* The answer of the target listing of a delete_policy run ("" if the run
\* never listed), and the targets it listed.
ListingCode == IF IsDelete /\ last.calls # <<>> THEN last.calls[1].code ELSE ""

Listed == IF ListingCode = "ok" THEN last.calls[1].Targets ELSE <<>>

NoCallTo(apis) == \A i \in DOMAIN last.calls : last.calls[i].api \notin apis

\* The same invocation, from the same store and under the same faults, run
\* in the given mode.
Run(rt) ==
  IF last.op = "delete_policy"
  THEN delete_policy(Start(last.pre), rt, last.args.policy,
                     last.args.force_delete, last.env)
  ELSE IF last.op = "delete_policies"
  THEN delete_policies(Start(last.pre), rt, last.args.has_policies,
                       last.args.policy_list, last.args.force_delete, last.env)
  ELSE IF last.op = "update_policy"
  THEN update_policy(Start(last.pre), rt, last.args.policy, last.args.name,
                     last.args.content, last.args.description, last.env)
  ELSE IF last.op = "create_policy"
  THEN create_policy(Start(last.pre), rt, last.args.name, last.args.content,
                     last.args.policy_type, last.args.description,
                     [has_tags |-> last.args.has_tags, tags |-> last.args.tags],
                     last.env)
  ELSE update_policy_tags(Start(last.pre), rt, last.args.policy,
                          last.args.has_tags, last.args.tags,
                          last.args.purge_tags, last.env)

----------------------------------------------------------------------------
\* C1: the run listed targets and force_delete is false.
C1_Blocked == IsDelete /\ Listed # <<>> /\ ~last.args.force_delete

(* C1.  delete_policy, targets listed, force_delete false: the run ends in *)
(* a hard failure that carries every listed target, in either mode, and    *)
(* issues no detach_policy and no delete_policy call.                      *)

C1_NoForceAborts ==
  C1_Blocked =>
    /\ last.status = "failed"
    /\ last.failure.policy = last.args.policy
    /\ Len(last.failure.targets) = Len(Listed)
    /\ \A i \in DOMAIN Listed :
         last.failure.targets[i].target_id = Listed[i].TargetId
    /\ NoCallTo({"detach_policy", "delete_policy"})
    /\ policies = last.pre

C1_Witness ==
  /\ C1_Blocked
  /\ Len(Listed) = 2
  /\ last.rt.check_mode
  /\ last.status = "failed"
  /\ Len(last.failure.targets) = 2

\* C2: a real run that listed targets, with force_delete true.
C2_Forced == IsDelete /\ IsReal /\ last.args.force_delete /\ Listed # <<>>

(* C2.  Real run of delete_policy, force_delete true, N >= 1 targets       *)
(* listed: the detach calls go to the listed targets one at a time in      *)
(* listing order; a delete_policy call comes only after all N of them; a   *)
(* detach answered "not attached" (or with success) is followed by the     *)
(* next call of the sequence; a run that returns reports changed = true.   *)

C2_DetachAllThenDelete ==
  C2_Forced =>
    LET N == Len(Listed)
        detaches == CallsTo("detach_policy")
    IN /\ Len(detaches) <= N
       /\ \A k \in DOMAIN detaches :
            /\ last.calls[k + 1] = detaches[k]
            /\ detaches[k].TargetId = Listed[k].TargetId
            /\ detaches[k].code \in {"ok", "PolicyNotAttachedException"} =>
                 /\ Len(last.calls) > k + 1
                 /\ last.calls[k + 2].api =
                      IF k < N THEN "detach_policy" ELSE "delete_policy"
       /\ \A j \in DOMAIN last.calls :
            last.calls[j].api = "delete_policy" =>
              /\ j = N + 2
              /\ Len(detaches) = N
       /\ last.status = "ok" => last.changed

C2_Witness ==
  /\ C2_Forced
  /\ Len(Listed) = 2
  /\ Len(last.calls) = 4
  /\ last.calls[2].code = "PolicyNotAttachedException"
  /\ last.calls[3].code = "ok"
  /\ last.calls[4].api = "delete_policy"
  /\ last.calls[4].code = "ok"
  /\ last.status = "ok"
  /\ last.changed

(* C3.  delete_policy, force_delete true: a detach that fails with an      *)
(* error other than "not attached" is the last call of the run, which ends *)
(* in a hard failure naming that target: no further detach, no delete.     *)

C3_DetachErrorAborts ==
  (IsDelete /\ last.args.force_delete) =>
    \A j \in DOMAIN last.calls :
      (/\ last.calls[j].api = "detach_policy"
       /\ last.calls[j].code \notin {"ok", "PolicyNotAttachedException"}) =>
        /\ j = Len(last.calls)
        /\ last.status = "failed"
        /\ last.failure.target = last.calls[j].TargetId
        /\ last.pre[last.args.policy].exists => policies[last.args.policy].exists

C3_Witness ==
  /\ IsDelete
  /\ last.args.force_delete
  /\ Len(Listed) = 2
  /\ Len(last.calls) = 2
  /\ last.calls[2].api = "detach_policy"
  /\ last.calls[2].code = "ServiceException"
  /\ last.status = "failed"

(* C4.  In check mode no method of Policies issues a mutating call         *)
(* (update_policy, create_policy, tag_resource, untag_resource,            *)
(* detach_policy, delete_policy), and the store is left as it was.         *)

C4_CheckModeNeverMutates ==
  (last.op # "none" /\ last.rt.check_mode) =>
    /\ NoCallTo(Mutating)
    /\ policies = last.pre

C4_Witness ==
  /\ last.op = "delete_policies"
  /\ last.rt.check_mode
  /\ last.args.force_delete
  /\ Len(last.args.policy_list) = 2
  /\ \A p \in PolicyIds : last.pre[p].targets # <<>>
  /\ last.status = "ok"
  /\ last.changed

(* C5.  For every method, store and fault pattern: when the real run       *)
(* returns, the same invocation in check mode returns the same changed.    *)

C5_CheckModeAgrees ==
  (last.op # "none" /\ IsReal /\ last.status = "ok") =>
    /\ Run([check_mode |-> TRUE]).status = "ok"
    /\ Run([check_mode |-> TRUE]).changed = last.changed

(* C6.  Real run of delete_policy that returns: changed is true if and     *)
(* only if some detach or the delete was carried out by the service (it    *)
(* answered with success, not with "not attached" or "not found").         *)

C6_ChangedIffExecuted ==
  (IsDelete /\ IsReal /\ last.status = "ok") =>
    (last.changed <=>
       \E i \in DOMAIN last.calls :
         /\ last.calls[i].api \in {"detach_policy", "delete_policy"}
         /\ last.calls[i].code = "ok")

\* C7: the target listing was answered access-denied.
C7_Denied == ListingCode = "AccessDeniedException"

(* C7.  delete_policy, target listing answered access-denied: a warning,   *)
(* no hard failure from the listing, no detach, and the run then issues    *)
(* the delete_policy call, whatever force_delete is (in every run).        *)

C7_DeniedListingProceeds ==
  C7_Denied =>
    /\ Len(last.warnings) = 1
    /\ NoCallTo({"detach_policy"})
    /\ Len(last.calls) = 2
    /\ last.calls[2].api = "delete_policy"

(* C7, the two modes told apart.  After an access-denied target listing:  *)
(* one warning, no hard failure from the listing, no detach; a real run    *)
(* issues the delete_policy call next, whatever force_delete is; a         *)
(* check-mode run stops at the delete step and returns changed = true      *)
(* without issuing it.                                                     *)

C7_DeniedListingProceedsReal ==
  C7_Denied =>
    /\ last.warnings = <<"Access Denied fetching policy targets">>
    /\ NoCallTo({"detach_policy"})
    /\ last.failure.msg # "Failed to list targets for policy"
    /\ IF IsReal
       THEN Len(last.calls) = 2 /\ last.calls[2].api = "delete_policy"
       ELSE Len(last.calls) = 1 /\ last.status = "ok" /\ last.changed

C7_Witness ==
  /\ C7_Denied
  /\ IsReal
  /\ ~last.args.force_delete
  /\ last.pre[last.args.policy].targets # <<>>
  /\ Len(last.calls) = 2
  /\ last.calls[2].api = "delete_policy"

\* C8, C9: the run, what it was asked for and what was stored.
IsUpdate == last.op = "update_policy"

Described == IsUpdate /\ last.calls[1].code = "ok"

Stored == last.pre[last.args.policy]

C8_Identical ==
  /\ Described
  /\ last.args.name = Stored.name
  /\ last.args.description = Stored.description
  /\ last.args.content = Stored.content

C8_Applied == IsUpdate /\ IsReal /\ last.status = "ok" /\ last.changed

C8_Again ==
  update_policy(Start(policies), last.rt, last.args.policy, last.args.name,
                last.args.content, last.args.description, NoEnv)

(* C8.  update_policy with name, description and content equal to the     *)
(* stored ones returns changed = false without a mutating call; and after  *)
(* an update that went through, the same update_policy again returns       *)
(* changed = false without a mutating call.                                *)

C8_IdenticalUpdateIsNoOp ==
  /\ C8_Identical =>
       /\ last.status = "ok"
       /\ ~last.changed
       /\ NoCallTo(Mutating)
       /\ policies = last.pre
  /\ C8_Applied =>
       /\ C8_Again.status = "ok"
       /\ ~C8_Again.changed
       /\ \A i \in DOMAIN C8_Again.calls : C8_Again.calls[i].api \notin Mutating
       /\ C8_Again.svc = policies

C8_Witness ==
  /\ C8_Identical
  /\ IsReal
  /\ last.status = "ok"
  /\ ~last.changed

\* C9: the attributes an update should carry.
C9_Differs(k) ==
  IF k = "Name" THEN last.args.name # Stored.name
  ELSE IF k = "Description" THEN last.args.description # Stored.description
  ELSE json_loads(last.args.content) # json_loads(Stored.content)

C9_Desired(k) ==
  IF k = "Name" THEN last.args.name
  ELSE IF k = "Description" THEN last.args.description
  ELSE last.args.content

C9_Expected ==
  {k \in {"Name", "Description", "Content"} :
     C9_Desired(k) \notin {None, ""} /\ C9_Differs(k)}

(* C9.  An update call of update_policy is the only one of the run and     *)
(* carries exactly the attributes among Name, Description and Content that *)
(* were given non-empty and differ from the stored value (for Content: the *)
(* documents differ), each with the desired value, and no Type; a desired  *)
(* value that is absent or empty never stages a change.                    *)

C9_UpdateCarriesExactlyTheChanges ==
  IsUpdate =>
    /\ Len(CallsTo("update_policy")) <= 1
    /\ \A i \in DOMAIN last.calls :
         last.calls[i].api = "update_policy" =>
           /\ DOMAIN last.calls[i].params = C9_Expected
           /\ \A k \in C9_Expected : last.calls[i].params[k] = C9_Desired(k)
           /\ "Type" \notin DOMAIN last.calls[i].params
    /\ (Described /\ C9_Expected = {}) =>
         /\ last.status = "ok"
         /\ ~last.changed
         /\ NoCallTo(Mutating)
    /\ (Described /\ IsReal /\ C9_Expected # {}) =>
         Len(CallsTo("update_policy")) = 1

C9_Witness ==
  /\ IsUpdate
  /\ last.args.name = Stored.name
  /\ last.args.content = ContentBA
  /\ Stored.content = ContentAB
  /\ Len(last.calls) = 2
  /\ last.calls[2].api = "update_policy"
  /\ DOMAIN last.calls[2].params = {"Description"}
  /\ last.status = "ok"
  /\ policies[last.args.policy].description = last.args.description

\* C10: the tag diff as the contract states it.
C10_Observed == last.pre[last.args.policy].tags

C10_ToSet ==
  {k \in DOMAIN last.args.tags :
     k \notin DOMAIN C10_Observed \/ last.args.tags[k] # C10_Observed[k]}

C10_ToDelete ==
  IF last.args.purge_tags THEN DOMAIN C10_Observed \ DOMAIN last.args.tags
  ELSE {}

(* C10.  Real run of update_policy_tags on observed tags and desired tags: *)
(* tag_resource is called exactly when some pair (k, desired[k]) has       *)
(* desired[k] # observed.get(k), with exactly those pairs; untag_resource  *)
(* is called exactly when purge_tags is true and observed has a key that   *)
(* desired lacks, with exactly those keys; with nothing to set and nothing *)
(* to delete the run returns changed = false and calls neither.            *)

C10_TagDiffApplied ==
  (/\ last.op = "update_policy_tags"
   /\ IsReal
   /\ last.args.has_tags
   /\ last.calls[1].code = "ok"
   /\ last.status # "failed") =>
    /\ (C10_ToSet # {}) <=> (CallsTo("tag_resource") # <<>>)
    /\ \A i \in DOMAIN last.calls :
         last.calls[i].api = "tag_resource" =>
           Range(last.calls[i].Tags) =
             {[Key |-> k, Value |-> last.args.tags[k]] : k \in C10_ToSet}
    /\ (C10_ToDelete # {}) <=> (CallsTo("untag_resource") # <<>>)
    /\ \A i \in DOMAIN last.calls :
         last.calls[i].api = "untag_resource" =>
           Range(last.calls[i].TagKeys) = C10_ToDelete
    /\ (C10_ToSet = {} /\ C10_ToDelete = {}) =>
         /\ last.status = "ok"
         /\ ~last.changed
         /\ NoCallTo(Mutating)

\* C11: a real run of update_policy_tags that listed the tags and found
\* both pairs to set and keys to delete.
C11_Both ==
  /\ last.op = "update_policy_tags"
  /\ IsReal
  /\ last.args.has_tags
  /\ last.calls[1].code = "ok"
  /\ C10_ToSet # {}
  /\ C10_ToDelete # {}

(* C11.  update_policy_tags with both tags to set and tags to delete: the  *)
(* tag_resource call is issued first and, when it went through, the        *)
(* untag_resource call is issued after it; when the tag_resource call      *)
(* fails the run ends in the hard failure "Failed to set tags" (not        *)
(* "Failed to remove tags") and no untag_resource call is issued.          *)

C11_SetBeforeDelete ==
  C11_Both =>
    /\ Len(last.calls) >= 2
    /\ last.calls[2].api = "tag_resource"
    /\ IF last.calls[2].code = "ok"
       THEN /\ Len(last.calls) = 3
            /\ last.calls[3].api = "untag_resource"
       ELSE /\ Len(last.calls) = 2
            /\ last.status = "failed"
            /\ last.failure.msg = "Failed to set tags"

\* C12: a real run of create_policy, and the tags it was asked for.
C12_Real == last.op = "create_policy" /\ IsReal

C12_Tags == IF last.args.has_tags THEN last.args.tags ELSE NoTags

(* C12.  Real run of create_policy: the create_policy call is the first    *)
(* call; when it went through, one tag_resource call follows, on the id of *)
(* the new policy and with the tags asked for; when that call fails the    *)
(* run ends in a hard failure, the new policy still exists as created, and *)
(* no delete_policy or detach_policy call is issued.                       *)

C12_TagAfterCreateNoRollback ==
  C12_Real =>
    /\ last.calls # <<>>
    /\ last.calls[1].api = "create_policy"
    /\ NoCallTo({"delete_policy", "detach_policy"})
    /\ IF last.calls[1].code # "ok"
       THEN Len(last.calls) = 1 /\ last.status = "failed" /\ policies = last.pre
       ELSE /\ Len(last.calls) = 2
            /\ last.calls[2].api = "tag_resource"
            /\ last.calls[2].ResourceId = last.created
            /\ last.created \in PolicyIds
            /\ ~last.pre[last.created].exists
            /\ policies[last.created].exists
            /\ policies[last.created].name = last.args.name
            /\ boto3_tag_list_to_ansible_dict(last.calls[2].Tags) = C12_Tags
            /\ IF last.calls[2].code = "ok"
               THEN /\ last.status = "ok"
                    /\ policies[last.created].tags = C12_Tags
               ELSE /\ last.status = "failed"
                    /\ policies[last.created].tags = NoTags

C12_Witness ==
  /\ C12_Real
  /\ DOMAIN C12_Tags = {"k1", "k2"}
  /\ Len(last.calls) = 2
  /\ last.calls[2].code = "ServiceException"
  /\ last.status = "failed"
  /\ policies[last.created].exists

----------------------------------------------------------------------------
\* C13..C15: a run of list_ous, the parent it listed from, and the place of
\* an OU below that parent in the organization.
IsListOus == last.op = "list_ous"

ListedFrom ==
  IF Truthy(last.args.parent) THEN last.args.parent
  ELSE IF org.roots # <<>> THEN org.roots[1] ELSE None

\* The OUs right under n, in listing order.
ChildrenOf(n) == SelectSeq(OuOrder, LAMBDA o : org.parent[o] = n)

\* The parent relation has no cycle.
IsTree ==
  \A o \in OUs :
    LET up1 == org.parent[o]
        up2 == IF up1 \in OUs THEN org.parent[up1] ELSE None
        up3 == IF up2 \in OUs THEN org.parent[up2] ELSE None
    IN o \notin {up1, up2, up3}

\* How many levels the OU o lies below the node top (0 when it does not).
RECURSIVE LevelBelow(_, _, _)
LevelBelow(o, top, fuel) ==
  IF fuel = 0 \/ o \notin OUs THEN 0
  ELSE IF org.parent[o] = top THEN 1
  ELSE IF LevelBelow(org.parent[o], top, fuel - 1) = 0 THEN 0
  ELSE 1 + LevelBelow(org.parent[o], top, fuel - 1)

C13_Run ==
  /\ IsListOus
  /\ IsTree
  /\ last.args.recurse
  /\ last.args.max_depth >= 1
  /\ last.status = "ok"

(* C13.  list_ous(parent, recurse=True, max_depth=d), d >= 1, on an OU     *)
(* tree: the result begins with the parent's direct children, no OU in it  *)
(* lies more than d levels below the parent, and every OU in it whose      *)
(* parent is an OU below the start comes after that parent.                *)

C13_DepthBoundedParentFirst ==
  C13_Run =>
    LET result == last.result
        kids == ChildrenOf(ListedFrom)
    IN /\ Len(result) >= Len(kids)
       /\ \A i \in DOMAIN kids : result[i].Id = kids[i]
       /\ \A i \in DOMAIN result :
            /\ LevelBelow(result[i].Id, ListedFrom, Cardinality(OUs)) >= 1
            /\ LevelBelow(result[i].Id, ListedFrom, Cardinality(OUs))
                 <= last.args.max_depth
            /\ org.parent[result[i].Id] # ListedFrom =>
                 \E j \in 1..(i - 1) : result[j].Id = org.parent[result[i].Id]

\* The number of calls a walk of d levels can make when a parent has at
\* most b children: 1 + b + ... + b^d.
RECURSIVE C14_MaxCalls(_, _)
C14_MaxCalls(b, d) == IF d <= 0 THEN 1 ELSE 1 + b * C14_MaxCalls(b, d - 1)

C14_Listings == CallsTo("list_organizational_units_for_parent")

(* C14.  list_ous ends after a bounded number of listing calls, whatever   *)
(* the parent relation (cycles included): at most 1 + b + ... + b^d calls  *)
(* for max_depth d and b OUs; with max_depth <= 0 or recurse false there   *)
(* is at most one listing call (exactly one when the parent is known), and *)
(* a run that returns then returns the parent's direct children only.      *)

C14_BoundedWalk ==
  IsListOus =>
    /\ last.status \in {"ok", "failed"}
    /\ Len(C14_Listings) <= C14_MaxCalls(Cardinality(OUs), last.args.max_depth)
    /\ (~last.args.recurse \/ last.args.max_depth <= 0) =>
         /\ Len(C14_Listings) <= 1
         /\ last.status = "ok" =>
              /\ Len(C14_Listings) = 1
              /\ last.result =
                   [i \in DOMAIN ChildrenOf(ListedFrom) |->
                      [Id |-> ChildrenOf(ListedFrom)[i]]]

C14_Witness ==
  /\ IsListOus
  /\ ~IsTree
  /\ last.args.recurse
  /\ last.args.max_depth = 2
  /\ last.status = "ok"
  /\ \E i \in DOMAIN last.result : last.result[i].Id = last.args.parent
  /\ Len(C14_Listings) = 3

\* C15: list_ous was given no parent and the roots were listed.
C15_NoParent ==
  /\ IsListOus
  /\ ~Truthy(last.args.parent)
  /\ last.calls[1].code = "ok"

(* C15.  list_ous with no parent: with zero roots or more than one root    *)
(* the run ends in a hard failure asking for a parent and issues no        *)
(* list_organizational_units_for_parent call; with exactly one root the    *)
(* listing call that follows goes to that root.                            *)

C15_UniqueRootOrFail ==
  C15_NoParent =>
    /\ last.calls[1].api = "list_roots"
    /\ IF Len(org.roots) = 1
       THEN /\ Len(C14_Listings) >= 1
            /\ last.calls[2] = C14_Listings[1]
            /\ C14_Listings[1].ParentId = org.roots[1]
            /\ (last.status = "ok" /\ ~last.args.recurse) =>
                 last.result = [i \in DOMAIN ChildrenOf(org.roots[1]) |->
                                  [Id |-> ChildrenOf(org.roots[1])[i]]]
       ELSE /\ last.status = "failed"
            /\ last.failure.msg \in
                 {"Unable to list Organization Roots, a parent must be specified",
                  "Found multiple Organization Roots, a parent must be specified"}
            /\ C14_Listings = <<>>
            /\ last.result = <<>>

C15_Witness ==
  /\ C15_NoParent
  /\ Len(org.roots) = 2
  /\ last.status = "failed"
  /\ last.failure.msg =
       "Found multiple Organization Roots, a parent must be specified"
  /\ Len(last.calls) = 1

----------------------------------------------------------------------------
\* C16: a run of describe_ou that asked for the attachments and got past
\* the tags; the auxiliary queries it issued, and those it should issue.
C16_Attachments ==
  /\ last.op = "describe_ou"
  /\ last.args.fetch_attachments
  /\ \E i \in DOMAIN last.calls :
       last.calls[i].api = "list_tags_for_resource" /\ last.calls[i].code = "ok"

C16_Subs == SelectSeq(last.calls, LAMBDA c : QueryOf(c) # "")

C16_Order == <<"parents", "accounts", "child_ous">> \o AttachedTypes

C16_DeniedQueries ==
  {QueryOf(C16_Subs[i]) : i \in {j \in DOMAIN C16_Subs :
                                   C16_Subs[j].code = "AccessDeniedException"}}

\* What the service holds for a query of the OU, nothing when it was denied.
C16_Held(q, items) == IF q \in C16_DeniedQueries THEN <<>> ELSE items

C16_AttachedOf(type) ==
  C16_Held(type, SelectSeq(org.attached[last.args.ou], LAMBDA x : x.Type = type))

(* C16.  describe_ou with fetch_attachments: the queries for the parents,  *)
(* the child accounts, the child OUs and the attached policies of each     *)
(* type are issued in that order; one answered access-denied gives a       *)
(* warning and an empty result for it and is followed by the next query;   *)
(* one answered with another error is the last call and the describe ends  *)
(* in a hard failure; when none fails that way the describe returns every  *)
(* field, filled from the service except where the query was denied.       *)

C16_SubQueriesIndependent ==
  C16_Attachments =>
    /\ Len(C16_Subs) \in 1..Len(C16_Order)
    /\ \A i \in DOMAIN C16_Subs :
         /\ QueryOf(C16_Subs[i]) = C16_Order[i]
         /\ IF C16_Subs[i].code \in {"ok", "AccessDeniedException"}
            THEN i < Len(C16_Order) => Len(C16_Subs) > i
            ELSE /\ i = Len(C16_Subs)
                 /\ last.calls[Len(last.calls)] = C16_Subs[i]
                 /\ last.status = "failed"
    /\ Len(last.warnings) = Cardinality(C16_DeniedQueries)
    /\ (\A i \in DOMAIN C16_Subs :
          C16_Subs[i].code \in {"ok", "AccessDeniedException"}) =>
         /\ last.status = "ok"
         /\ Len(last.result) = 1
         /\ last.result[1].Id = last.args.ou
         /\ last.result[1].Tags =
              ansible_dict_to_boto3_tag_list(org.tags[last.args.ou])
         /\ last.result[1].Parents =
              C16_Held("parents", <<org.parent[last.args.ou]>>)
         /\ last.result[1].ChildAccounts =
              C16_Held("accounts",
                SelectSeq(AccountOrder,
                          LAMBDA a : org.account_parent[a] = last.args.ou))
         /\ last.result[1].ChildOus =
              C16_Held("child_ous", ChildrenOf(last.args.ou))
         /\ last.result[1].AttachedPolicies =
              C16_AttachedOf(AttachedTypes[1]) \o C16_AttachedOf(AttachedTypes[2])
              \o C16_AttachedOf(AttachedTypes[3]) \o C16_AttachedOf(AttachedTypes[4])

C16_Witness ==
  /\ C16_Attachments
  /\ C16_DeniedQueries = {"accounts"}
  /\ org.account_parent["a1"] = last.args.ou
  /\ last.status = "ok"
  /\ last.result[1].ChildAccounts = <<>>
  /\ last.result[1].Parents # <<>>
  /\ last.result[1].Tags # <<>>
  /\ Len(last.result[1].AttachedPolicies) = 2
  /\ Len(last.warnings) = 1

\* C17: the calls of a describe that listed the tags of an entity and were
\* answered access-denied.
C17_DeniedTags ==
  {i \in DOMAIN last.calls :
     /\ last.op \in {"describe_policies", "describe_ou", "describe_ous"}
     /\ last.calls[i].api = "list_tags_for_resource"
     /\ last.calls[i].code = "AccessDeniedException"}

(* C17.  In describe_policy and in describe_ou a tag listing answered      *)
(* access-denied gives a warning and does not end the describe: the run    *)
(* does not stop at that call, and a run that returns has the entity in    *)
(* its result with empty tags.                                             *)

C17_DeniedTagsDegrade ==
  \A i \in C17_DeniedTags :
    /\ Len(last.warnings) >= 1
    /\ last.status # "crashed"
    /\ last.status = "failed" => i < Len(last.calls)
    /\ last.status = "ok" =>
         \E k \in DOMAIN last.result :
           /\ last.result[k].Id = last.calls[i].ResourceId
           /\ last.result[k].Tags = <<>>

\* C18: the calls of a describe that listed the targets of a policy and
\* were answered access-denied.
C18_DeniedTargets ==
  {i \in DOMAIN last.calls :
     /\ last.op \in {"describe_policies", "organization_policy_info"}
     /\ last.args.fetch_targets
     /\ last.calls[i].api = "list_targets_for_policy"
     /\ last.calls[i].code = "AccessDeniedException"}

(* C18.  With fetch_targets, a target listing answered access-denied       *)
(* during a describe gives a warning and does not end the describe: the    *)
(* run does not stop at that call and ends in no failure about the         *)
(* targets.                                                                *)

C18_DeniedTargetsDegrade ==
  \A i \in C18_DeniedTargets :
    /\ Len(last.warnings) >= 1
    /\ last.status = "failed" => i < Len(last.calls)
    /\ last.failure.msg \notin {"Failed to list targets for policy",
                                "Failed to policy targets for policy"}

\* C19: the runs of the describes, the entities they were given in input
\* order, and the calls that describe or begin the description of one.
C19_Batch == last.op \in {"describe_policies", "describe_ous", "describe_ou"}

C19_Ok == {"ok", "PolicyNotFoundException", "OrganizationalUnitNotFoundException"}

C19_Describes == CallsTo("describe_policy")

C19_Present ==
  SelectSeq(last.args.policy_list, LAMBDA p : last.pre[p].exists)

C19_TagCalls == CallsTo("list_tags_for_resource")

(* C19.  describe_policies describes the policies one at a time in input   *)
(* order; "not found" on the base describe of a policy or of an OU gives    *)
(* an absent result and no failure; a batch that returns has described     *)
(* every entity and returns the descriptions of those found, in input      *)
(* order; a run that does not return ended at a call answered with an      *)
(* error other than "not found".                                           *)

C19_BatchDropsAbsent ==
  C19_Batch =>
    /\ last.status \in {"failed", "crashed"} =>
         /\ last.failure.exception \notin C19_Ok
         /\ last.op = "describe_policies" =>
              /\ last.calls # <<>>
              /\ last.calls[Len(last.calls)].code = last.failure.exception
    /\ \A i \in DOMAIN last.calls :
         last.calls[i].code \in C19_Ok \ {"ok"} =>
           /\ last.failure.exception # last.calls[i].code
           /\ i = Len(last.calls) => last.status = "ok"
    /\ last.op = "describe_policies" =>
         /\ Len(C19_Describes) <= Len(last.args.policy_list)
         /\ \A k \in DOMAIN C19_Describes :
              C19_Describes[k].PolicyId = last.args.policy_list[k]
         /\ last.status = "ok" =>
              /\ Len(C19_Describes) = Len(last.args.policy_list)
              /\ Len(last.result) = Len(C19_Present)
              /\ \A k \in DOMAIN C19_Present :
                   /\ last.result[k].Id = C19_Present[k]
                   /\ last.result[k].Name = last.pre[C19_Present[k]].name
    /\ (last.op = "describe_ou" /\ last.status = "ok") =>
         IF last.args.ou \in OUs /\ OuExists(org, last.args.ou)
         THEN Len(last.result) = 1 /\ last.result[1].Id = last.args.ou
         ELSE last.result = <<>>
    /\ (last.op = "describe_ous" /\ last.status = "ok") =>
         /\ Len(last.result) = Len(C19_TagCalls)
         /\ \A k \in DOMAIN last.result :
              last.result[k].Id = C19_TagCalls[k].ResourceId

C19_Witness ==
  /\ last.op = "describe_policies"
  /\ last.args.policy_list = <<"p1", "p2">>
  /\ ~last.pre["p1"].exists
  /\ last.pre["p2"].exists
  /\ last.args.fetch_targets
  /\ last.status = "ok"
  /\ Len(last.result) = 1
  /\ last.result[1].Id = "p2"
  /\ last.calls[1].code = "PolicyNotFoundException"

\* C20: a run of the organization_policy_info module on a list of ids.
C20_ByIds ==
  /\ last.op = "organization_policy_info"
  /\ last.args.has_policy_ids
  /\ last.args.policy_ids # <<>>

(* C20.  organization_policy_info with policy_ids: a describe answered     *)
(* "not found" does not make the module fail, and a run that ends well     *)
(* returns the descriptions of the existing policies of the list, the      *)
(* missing ones dropped.                                                   *)

C20_InfoDropsMissing ==
  C20_ByIds =>
    /\ \A i \in DOMAIN last.calls :
         last.calls[i].code = "PolicyNotFoundException" =>
           /\ last.failure.exception # "PolicyNotFoundException"
           /\ i = Len(last.calls) => last.status = "ok"
    /\ last.status = "ok" =>
         LET present == SelectSeq(last.args.policy_ids,
                                  LAMBDA p : last.pre[p].exists)
         IN /\ Len(last.result) = Len(present)
            /\ \A k \in DOMAIN present :
                 last.result[k].policy_summary.id = present[k]

----------------------------------------------------------------------------
IsModule == last.op = "organization_policy"

\* The API value of a policy type, as the glossary of aliases gives it.
ApiType(policy_type) ==
  IF policy_type \in {None, "service_control", "SERVICE_CONTROL_POLICY"}
  THEN "SERVICE_CONTROL_POLICY"
  ELSE IF policy_type \in {"aiservices_opt_out", "AISERVICES_OPT_OUT_POLICY"}
  THEN "AISERVICES_OPT_OUT_POLICY"
  ELSE IF policy_type \in {"backup", "BACKUP_POLICY"} THEN "BACKUP_POLICY"
  ELSE "TAG_POLICY"

\* The policies of the selected type that had the given name when the run
\* began.
NamedAlike ==
  SelectSeq(IdOrder,
            LAMBDA p : /\ last.pre[p].exists
                       /\ last.pre[p].type = ApiType(last.args.policy_type)
                       /\ last.pre[p].name = last.args.name)

\* C21: a run of the module by name, the listing answered, and more than
\* one policy has the name.
C21_Ambiguous ==
  /\ IsModule
  /\ last.args.policy = None
  /\ last.env.list_policies = "none"
  /\ Len(NamedAlike) > 1

(* C21.  organization_policy, no policy_id, more than one policy of the    *)
(* name: the run ends in a structured hard failure that asks for a         *)
(* policy_id, and it issues no create, update, tag, untag, detach or       *)
(* delete call, for state=present and state=absent alike.                  *)
C21_AmbiguousNameFails ==
  C21_Ambiguous =>
    /\ last.status = "failed"
    /\ last.failure.msg # ""
    /\ NoCallTo(Mutating)
    /\ policies = last.pre

----------------------------------------------------------------------------
\* The four values the API takes for a policy type.
ApiTypes ==
  {"SERVICE_CONTROL_POLICY", "AISERVICES_OPT_OUT_POLICY", "BACKUP_POLICY",
   "TAG_POLICY"}

\* C22: the type a call carries (the Filter of a listing, the Type of a
\* create), "" for a call that carries none.
C22_Sent(call) ==
  IF call.api = "list_policies" THEN call.Filter
  ELSE IF call.api = "create_policy" THEN call.Type
  ELSE ""

(* C22.  Wherever a policy type is sent (Policies.create_policy,           *)
(* list_policies, find_policy_by_name, and list_policies of                *)
(* organization_policy_info), the value sent is the API value of the type  *)
(* asked for: the short names map to their upper-case values, the          *)
(* upper-case values pass unchanged, no type means SERVICE_CONTROL_POLICY; *)
(* it is always one of the four API values, and the module's table agrees  *)
(* with the one of Policies.                                               *)
C22_AliasingEverywhere ==
  /\ \A i \in DOMAIN last.calls :
       C22_Sent(last.calls[i]) # "" =>
         /\ C22_Sent(last.calls[i]) = ApiType(last.args.policy_type)
         /\ C22_Sent(last.calls[i]) \in ApiTypes
  /\ \A t \in PolicyTypes : info_policy_type(t) = TYPE_MAPPING(t)

C22_Witness ==
  /\ last.op = "find_policy_by_name"
  /\ last.args.policy_type = "backup"
  /\ last.calls # <<>>
  /\ C22_Sent(last.calls[1]) = "BACKUP_POLICY"

----------------------------------------------------------------------------
\* C23: a real forced delete that failed hard after a detach went through.
C23_Partial ==
  /\ IsDelete /\ IsReal /\ last.args.force_delete
  /\ last.status = "failed"
  /\ \E i \in DOMAIN last.calls :
       last.calls[i].api = "detach_policy" /\ last.calls[i].code = "ok"

\* The same delete run again on the store the failed run left, the service
\* answering without errors.
C23_Retry ==
  delete_policy(Start(policies), [check_mode |-> FALSE], last.args.policy,
                TRUE, NoEnv)

\* A further delete of the policy, in either mode, forced or not, on the
\* store the retry left.
C23_Further(rt, force_delete) ==
  delete_policy(Start(C23_Retry.svc), rt, last.args.policy, force_delete,
                NoEnv)

(* C23.  delete_policy with force_delete failed hard after detaching some  *)
(* targets: the same delete run again, the service answering without       *)
(* errors, detaches exactly the targets still attached, deletes the policy *)
(* and returns changed=true; any further delete of the policy then ends    *)
(* without a hard failure, issues no detach or delete call and returns     *)
(* changed=false.                                                          *)
C23_ForcedDeleteRetries ==
  C23_Partial =>
    LET left == policies[last.args.policy].targets
        detached == SelectSeq(C23_Retry.calls,
                              LAMBDA c : c.api = "detach_policy")
    IN /\ C23_Retry.status = "ok"
       /\ C23_Retry.changed
       /\ Len(detached) = Len(left)
       /\ \A i \in DOMAIN left :
            detached[i].TargetId = left[i] /\ detached[i].code = "ok"
       /\ C23_Retry.calls[Len(C23_Retry.calls)].api = "delete_policy"
       /\ C23_Retry.calls[Len(C23_Retry.calls)].code = "ok"
       /\ ~C23_Retry.svc[last.args.policy].exists
       /\ \A rt \in Runtimes, force_delete \in BOOLEAN :
            LET further == C23_Further(rt, force_delete)
            IN /\ further.status = "ok"
               /\ ~further.changed
               /\ \A i \in DOMAIN further.calls :
                    further.calls[i].api \notin Mutating
               /\ further.svc = C23_Retry.svc

C23_Witness ==
  /\ C23_Partial
  /\ policies[last.args.policy].targets # <<>>
  /\ C23_Retry.status = "ok"

----------------------------------------------------------------------------
\* C24: a real run of the module with state=present, a name and a content
\* and no policy_id, no policy of the selected type has the name, the
\* service answers every call without a fault and has room for a policy.
C24_Missing ==
  /\ IsModule /\ IsReal
  /\ last.args.state = "present"
  /\ last.args.policy = None
  /\ Truthy(last.args.name) /\ Truthy(last.args.content)
  /\ NamedAlike = <<>>
  /\ last.env = NoEnv
  /\ \E p \in PolicyIds : ~last.pre[p].exists

(* C24.  organization_policy, state=present, name and policy_content       *)
(* given, no policy_id, no policy of the selected type with the name (also *)
(* when there is no policy of the type at all): a real run issues exactly  *)
(* one create_policy call, for that name, and reports changed=true.        *)
C24_MissingIsCreated ==
  C24_Missing =>
    /\ Len(CallsTo("create_policy")) = 1
    /\ CallsTo("create_policy")[1].Name = last.args.name
    /\ last.status = "ok"
    /\ last.changed

----------------------------------------------------------------------------
\* C25: the delete_policy call of a delete_policy run, if it was issued and
\* answered with an error other than "not found".
C25_Refused ==
  /\ IsDelete
  /\ CallsTo("delete_policy") # <<>>
  /\ CallsTo("delete_policy")[1].code \notin {"ok", "PolicyNotFoundException"}

(* C25.  delete_policy, the delete_policy call answered with an error      *)
(* other than "not found": the run ends in a structured hard failure that  *)
(* carries the policy id and the service's error, whatever the target list *)
(* was (also the empty one: no targets, or an access-denied listing).      *)
C25_DeleteErrorReported ==
  C25_Refused =>
    /\ last.status = "failed"
    /\ last.failure.policy = last.args.policy
    /\ last.failure.exception = CallsTo("delete_policy")[1].code

====
